---- MODULE Spec2Model ----
(***************************************************************************)
(* A state-machine model of the linux-driver-learning tutorial drivers:    *)
(*   - the camera driver (Module 05 v2, wait queue + timer "interrupt"),   *)
(*   - the user processes that poll() and read() /dev/camera,              *)
(*   - the poll driver (Module 04, mutex + read/write wait queues) and the *)
(*     threads of its test program,                                        *)
(*   - the TCP frame streamer's main loop (Module 07).                     *)
(* Every kernel handler is split at the points where another CPU (or the   *)
(* timer softirq) can interleave.                                          *)
(***************************************************************************)
EXTENDS Integers, Sequences, FiniteSets, TLC

(* ------------------------------ bounds -------------------------------- *)

\* pixels of one frame (the driver's 640*480 raster, scaled down)
FRAME_SIZE == 2
\* the timer is not fired any more once frame_count has reached this value
MaxFrames == 3

\* bytes of the poll driver's buffer (the driver's 1024, scaled down)
BUFFER_SIZE == 2
\* bytes of the longest frame the streamer reads from the device
MaxReadLen == 3
\* frames the streamer transmits before it stops (the program's 5, scaled down)
MAX_FRAMES == 2

\* the user processes that use /dev/camera
Readers == {1, 2}
Pixels == 1..FRAME_SIZE
\* the threads that use /dev/poll_device
Users == {1, 2}
\* the values of a data byte
Bytes == {1, 2}
\* what the streamer's main acquires: the frame buffer (malloc), the device
\* descriptor (open), the listening socket (socket), the client socket
\* (accept)
Resources == {"buffer", "device_fd", "server_fd", "client_fd"}

(* --------------------------- program constants ------------------------ *)

EAGAIN == 11
EFAULT == 14
ERESTARTSYS == 512
POLLIN == 1
POLLOUT == 4
POLLRDNORM == 64
POLLWRNORM == 256
\* POLLIN | POLLRDNORM
POLLIN_RDNORM == POLLIN + POLLRDNORM
\* content of kmalloc'ed memory that was never written (no pixel has this value)
Uninit == 4096

\* ---- ioctl driver ----
EINVAL == 22
EBUSY == 16
ENOTTY == 25
DEFAULT_GAIN == 50
DEFAULT_EXPOSURE == 33
DEFAULT_WB_TEMP == 5500
\* the processes that have /dev/ioctl_dev open and call ioctl concurrently
Callers == {1, 2}
\* the commands of ioctl_cmd.h and a command number the driver does not know
IoctlCmds == {"RESET", "SET_PARAMS", "GET_PARAMS", "GET_STATUS",
              "START_STREAM", "STOP_STREAM", "UNKNOWN"}
\* the structures a caller passes to IOCTL_SET_PARAMS: every field takes the
\* values on both sides of each limit validate_params tests (the fields are
\* unsigned)
ParamInputs ==
    [gain : {DEFAULT_GAIN, 100, 101},
     exposure : {0, 1, 1000, 1001},
     wb_temp : {1999, 2000, 10000, 10001}]

\* ---- character device ----
BUF_SIZE == 2
\* the processes that use /dev/hello
Openers == {1, 2}
\* the n bytes a process passes to write: every byte tells the write and
\* its position, and none is 0
Msg(b, n) == [i \in 1..n |-> 10 * b + i]

VARIABLES
    \* ---- camera driver (kernel) ----
    mstate,          \* progress of interrupt_v2_init / interrupt_v2_exit
    buf_state,       \* frame_buffer pointer: "null", "alloc", "freed"
    frame_buffer,    \* contents of the allocation, one value per pixel
    data_ready,
    frame_count,
    timer_pending,   \* my_timer is armed
    tpc,             \* position of the running timer_callback ("idle": none)
    tidx,            \* pixel index of generate_test_pattern's loop
    my_wait_queue,   \* processes registered by poll_wait
    oops,            \* the kernel has faulted in freed module memory
    unclaimed,       \* history: the slot holds a published frame no read returned
    \* ---- user processes ----
    pc,              \* position of each process
    triggered,       \* poll_wqueues.triggered of the process's current poll()
    ret,             \* result of the process's last system call
    ubuf,            \* the process's user-space buffer
    uidx,            \* pixel index of copy_to_user in my_read
    bytes_to_copy,   \* my_read's local bytes_to_copy
    rseq,            \* history: the last publish completed when my_read began
    \* ---- poll driver (kernel) and its users ----
    pd_loaded,       \* poll_driver_init has succeeded
    dev_buffer,      \* dev->buffer, BUFFER_SIZE bytes
    buffer_size,     \* dev->buffer_size
    data_available,  \* dev->data_available
    mutex,           \* dev->mutex: 0 (free) or the thread that holds it
    read_queue,      \* threads registered on dev->read_queue by poll_wait
    write_queue,     \* threads registered on dev->write_queue by poll_wait
    upc,             \* position of each thread
    nonblock,        \* the thread's descriptor was opened with O_NONBLOCK
    count,           \* the count argument of the thread's read or write
    udata,           \* the thread's user-space buffer
    uret,            \* result of the thread's last system call
    utrig,           \* poll_wqueues.triggered of the thread's current poll()
    written,         \* history: a write has made data available
    \* ---- frame streamer ----
    fpc,             \* position of the streamer's main
    buffer,          \* the frame read from the device
    bytes_read,
    total_sent,
    fs_frame_count,  \* main's local frame_count
    wire,            \* the bytes the peer has received on the connection
    wire_mark,       \* history: length of wire when the current frame's send began
    short_write,     \* history: a send of the current frame accepted only a part
    exit_status,     \* main's return value (-1 while main runs)
    claimed,         \* history: the frames read from the device, concatenated
    res,             \* main's resources: "none", "held", "released", "bad"
    \* ---- ioctl driver (kernel) and its callers ----
    \* "off" while the driver is not part of the scenario, else a record:
    \*   params, is_streaming, frame_count: the fields of *dev_state
    \*   lock: dev_state->lock, 0 (free) or the caller that holds it
    \*   pc, cmd, arg, ret: for each caller its position, the cmd argument of
    \*     its ioctl, the structure arg points to as copied from or to user
    \*     space, and the result of its last ioctl
    \*   given: history, the parameters of the last SET_PARAMS or RESET that
    \*     succeeded
    ioctl,
    \* ---- character device (kernel) and the processes that use it ----
    \* "off" while the driver is not part of the scenario, else a record:
    \*   device_buffer: the BUF_SIZE bytes device_buffer points to
    \*   buffer_len
    \*   pc, offset, nbytes, user_buf, ret: for each process its position,
    \*     the position *offset of its open file, the handler's local
    \*     bytes_to_read or bytes_to_write, its user-space buffer and the
    \*     result of its last read or write
    \*   last_write: history, the bytes stored by the last write that succeeded
    chardev

kvars == <<mstate, buf_state, frame_buffer, data_ready, frame_count,
           timer_pending, tpc, tidx, my_wait_queue, oops, unclaimed>>
uvars == <<pc, triggered, ret, ubuf, uidx, bytes_to_copy, rseq>>
pvars == <<pd_loaded, written, dev_buffer, buffer_size, data_available, mutex,
           read_queue, write_queue, upc, nonblock, count, udata, uret, utrig>>
fvars == <<fpc, buffer, bytes_read, total_sent, fs_frame_count, wire, wire_mark,
           short_write, exit_status, claimed, res>>
vars == <<kvars, uvars, pvars, fvars, ioctl, chardev>>

(* --------------------------- pure functions --------------------------- *)

\* generate_test_pattern: the value written at pixel p (row 0, column p-1)
\* while frame_count = fc
Pixel(p, fc) == (((p - 1) + fc * 10) * 16) % 4096

\* the complete raster of the frame with sequence number fc
Frame(fc) == [p \in Pixels |-> Pixel(p, fc)]

EmptyBuf == [p \in Pixels |-> Uninit]

(* ------------------------------ Init ---------------------------------- *)

\* the camera module's static state and the processes that may use it
CameraStatics ==
    /\ buf_state = "null"
    /\ frame_buffer = EmptyBuf
    /\ data_ready = FALSE
    /\ frame_count = 0
    /\ timer_pending = FALSE
    /\ tpc = "idle"
    /\ tidx = 0
    /\ my_wait_queue = {}
    /\ oops = FALSE
    /\ unclaimed = FALSE
    /\ pc = [r \in Readers |-> "closed"]
    /\ triggered = [r \in Readers |-> FALSE]
    /\ ret = [r \in Readers |-> 0]
    /\ ubuf = [r \in Readers |-> EmptyBuf]
    /\ uidx = [r \in Readers |-> 0]
    /\ bytes_to_copy = [r \in Readers |-> 0]
    /\ rseq = [r \in Readers |-> 0]

\* the camera module is not loaded
CameraUnloaded == mstate = "unloaded" /\ CameraStatics

\* kzalloc'ed memory
ZeroBuf == [i \in 1..BUFFER_SIZE |-> 0]

\* the poll driver's state as poll_driver_init sets it, and the threads that
\* may use the device
PollStatics ==
    /\ written = FALSE
    /\ dev_buffer = ZeroBuf
    /\ buffer_size = 0
    /\ data_available = FALSE
    /\ mutex = 0
    /\ read_queue = {}
    /\ write_queue = {}
    /\ upc = [u \in Users |-> "closed"]
    /\ nonblock = [u \in Users |-> FALSE]
    /\ count = [u \in Users |-> 0]
    /\ udata = [u \in Users |-> <<>>]
    /\ uret = [u \in Users |-> 0]
    /\ utrig = [u \in Users |-> FALSE]

\* the poll driver is not loaded
PollDriverUnloaded == pd_loaded = FALSE /\ PollStatics

\* the streamer's locals before the main loop
StreamerLocals ==
    /\ buffer = <<>>
    /\ bytes_read = 0
    /\ total_sent = 0
    /\ fs_frame_count = 0
    /\ wire = <<>>
    /\ wire_mark = 0
    /\ short_write = FALSE
    /\ exit_status = -1
    /\ claimed = <<>>

\* the streamer is not running
StreamerOff ==
    /\ fpc = "off"
    /\ StreamerLocals
    /\ res = [x \in Resources |-> "none"]

\* the parameters reset_device stores
DefaultParams ==
    [gain |-> DEFAULT_GAIN, exposure |-> DEFAULT_EXPOSURE, wb_temp |-> DEFAULT_WB_TEMP]

\* an ioctl argument that points to no structure (as for commands without data)
NoArg == [none |-> 0]

\* the state of the ioctl driver after ioctl_driver_init (kzalloc, mutex_init,
\* reset_device) with both processes in user space, the device open
IoctlLoaded ==
    [params |-> DefaultParams, is_streaming |-> 0, frame_count |-> 0,
     lock |-> 0,
     pc |-> [c \in Callers |-> "user"],
     cmd |-> [c \in Callers |-> "NONE"],
     arg |-> [c \in Callers |-> NoArg],
     ret |-> [c \in Callers |-> 0],
     given |-> DefaultParams]

\* the state of the character device after chardev_init (kmalloc, memset);
\* no process has opened it
CharDevLoaded ==
    [device_buffer |-> [i \in 1..BUF_SIZE |-> 0],
     buffer_len |-> 0,
     pc |-> [p \in Openers |-> "closed"],
     offset |-> [p \in Openers |-> 0],
     nbytes |-> [p \in Openers |-> 0],
     user_buf |-> [p \in Openers |-> <<>>],
     ret |-> [p \in Openers |-> 0],
     last_write |-> <<>>]

\* the ioctl driver and the character device are not part of the scenario
OthersUnloaded == ioctl = "off" /\ chardev = "off"

\* interrupt_v2_init has created /dev/camera (step 5); the frame buffer is
\* not yet allocated and the timer is not yet started.
Init ==
    /\ mstate = "init_alloc"
    /\ CameraStatics
    /\ PollDriverUnloaded
    /\ StreamerOff
    /\ OthersUnloaded

(* ------------------- module initialisation (kernel) -------------------- *)

\* /dev/camera can be opened from device_create (init step 5) until the
\* module starts to unload: the open takes a reference on fops.owner, which
\* the kernel refuses once the exit function has been called
DeviceNodeExists == mstate \in {"init_alloc", "init_timer", "live"}

\* the module's text and static data are freed once init has failed or exit
\* has returned
ModuleGone == mstate = "removed"

\* interrupt_v2_init step 6: kmalloc(FRAME_SIZE); on failure the device is
\* destroyed again and init returns -ENOMEM
interrupt_v2_init_kmalloc ==
    /\ ~oops
    /\ mstate = "init_alloc"
    /\ \E ok \in BOOLEAN :
         IF ok
         THEN /\ buf_state' = "alloc"
              /\ mstate' = "init_timer"
         ELSE /\ buf_state' = "null"
              /\ mstate' = "removed"
    /\ UNCHANGED <<frame_buffer, data_ready, frame_count, timer_pending, tpc,
                   tidx, my_wait_queue, oops, unclaimed, uvars>>
    /\ UNCHANGED <<pvars, fvars, ioctl, chardev>>

\* interrupt_v2_init step 7: timer_setup + mod_timer(2000 ms)
interrupt_v2_init_timer ==
    /\ ~oops
    /\ mstate = "init_timer"
    /\ timer_pending' = TRUE
    /\ mstate' = "live"
    /\ UNCHANGED <<buf_state, frame_buffer, data_ready, frame_count, tpc,
                   tidx, my_wait_queue, oops, unclaimed, uvars>>
    /\ UNCHANGED <<pvars, fvars, ioctl, chardev>>

(* ---------------------- timer callback (softirq) ----------------------- *)

\* a callback that raises the flag as soon as it is entered, before the
\* frame has been generated
timer_callback_fire_ready_first ==
    /\ ~oops
    /\ timer_pending
    /\ tpc = "idle"
    /\ frame_count < MaxFrames
    /\ timer_pending' = FALSE
    /\ frame_count' = frame_count + 1
    /\ data_ready' = TRUE
    /\ tpc' = "gen"
    /\ tidx' = 1
    /\ UNCHANGED <<mstate, buf_state, frame_buffer,
                   my_wait_queue, oops, unclaimed, uvars>>
    /\ UNCHANGED <<pvars, fvars, ioctl, chardev>>

\* The timer expires: the kernel clears the pending state and calls
\* timer_callback (a timer's callback never runs concurrently with itself),
\* which enters simulate_camera_interrupt: frame_count++.  Nothing but the
\* callback reads frame_count while the module is loaded.
timer_callback_fire ==
    /\ ~oops
    /\ timer_pending
    /\ tpc = "idle"
    /\ frame_count < MaxFrames
    /\ timer_pending' = FALSE
    /\ frame_count' = frame_count + 1
    /\ tpc' = "gen"
    /\ tidx' = 1
    /\ UNCHANGED <<mstate, buf_state, frame_buffer, data_ready,
                   my_wait_queue, oops, unclaimed, uvars>>
    /\ UNCHANGED <<pvars, fvars, ioctl, chardev>>

\* generate_test_pattern: one iteration of the pixel loop.  The store goes
\* through the frame_buffer pointer whatever the allocation's state is.
generate_test_pattern ==
    /\ ~oops
    /\ tpc = "gen"
    /\ frame_buffer' = [frame_buffer EXCEPT ![tidx] = Pixel(tidx, frame_count)]
    /\ IF tidx < FRAME_SIZE
       THEN /\ tidx' = tidx + 1
            /\ tpc' = "gen"
       ELSE /\ tidx' = 0
            /\ tpc' = "set"
    /\ UNCHANGED <<mstate, buf_state, data_ready, frame_count, timer_pending,
                   my_wait_queue, oops, unclaimed, uvars>>
    /\ UNCHANGED <<pvars, fvars, ioctl, chardev>>

\* a publish that takes a lock held by my_read from its test to its clearing
\* of the flag: it waits while a reader is in the middle of a claim
simulate_camera_interrupt_set_locked ==
    /\ ~oops
    /\ tpc = "set"
    /\ \A r \in Readers : pc[r] \notin {"read_copy", "read_clear"}
    /\ data_ready' = TRUE
    /\ unclaimed' = TRUE
    /\ tpc' = "wake"
    /\ UNCHANGED <<mstate, buf_state, frame_buffer, frame_count, timer_pending,
                   tidx, my_wait_queue, oops, uvars>>
    /\ UNCHANGED <<pvars, fvars, ioctl, chardev>>

\* simulate_camera_interrupt KEY STEP 1: data_ready = true
simulate_camera_interrupt_set ==
    /\ ~oops
    /\ tpc = "set"
    /\ data_ready' = TRUE
    /\ unclaimed' = TRUE
    /\ tpc' = "wake"
    /\ UNCHANGED <<mstate, buf_state, frame_buffer, frame_count, timer_pending,
                   tidx, my_wait_queue, oops, uvars>>
    /\ UNCHANGED <<pvars, fvars, ioctl, chardev>>

\* a wake_up that wakes one waiter only, as for exclusive waiters
wake_up_first(q) ==
    [r \in Readers |-> triggered[r] \/ (r \in q /\ \A o \in q : r <= o)]

\* wake_up_interruptible(&my_wait_queue): the wake function of every
\* registered poll entry (pollwake) sets triggered and makes the task runnable
wake_up_interruptible(q) == [r \in Readers |-> triggered[r] \/ r \in q]

\* simulate_camera_interrupt KEY STEP 2: wake_up_interruptible
simulate_camera_interrupt_wake ==
    /\ ~oops
    /\ tpc = "wake"
    /\ triggered' = wake_up_interruptible(my_wait_queue)
    /\ tpc' = "rearm"
    /\ UNCHANGED <<mstate, buf_state, frame_buffer, data_ready, frame_count,
                   timer_pending, tidx, my_wait_queue, oops, unclaimed,
                   pc, ret, ubuf, uidx, bytes_to_copy, rseq>>
    /\ UNCHANGED <<pvars, fvars, ioctl, chardev>>

\* a timer_callback that returns without calling mod_timer
timer_callback_no_rearm ==
    /\ ~oops
    /\ tpc = "rearm"
    /\ tpc' = "idle"
    /\ UNCHANGED <<mstate, buf_state, frame_buffer, data_ready, frame_count,
                   timer_pending, tidx, my_wait_queue, oops, unclaimed, uvars>>
    /\ UNCHANGED <<pvars, fvars, ioctl, chardev>>

\* timer_callback: mod_timer(&my_timer, jiffies + 2000 ms), then return
timer_callback_rearm ==
    /\ ~oops
    /\ tpc = "rearm"
    /\ timer_pending' = TRUE
    /\ tpc' = "idle"
    /\ UNCHANGED <<mstate, buf_state, frame_buffer, data_ready, frame_count,
                   tidx, my_wait_queue, oops, unclaimed, uvars>>
    /\ UNCHANGED <<pvars, fvars, ioctl, chardev>>

(* -------------------------- module teardown --------------------------- *)

\* the module reference count: one reference per open file (fops.owner)
module_refcount == Cardinality({r \in Readers : pc[r] # "closed"})

\* interrupt_v2_exit: del_timer(&my_timer).  del_timer deactivates a pending
\* timer and returns at once; it does not wait for a running callback.
\* rmmod runs the exit function when no file is open, or when forced
\* (rmmod -f).
interrupt_v2_exit_del_timer(force) ==
    /\ ~oops
    /\ mstate = "live"
    /\ force \/ module_refcount = 0
    /\ timer_pending' = FALSE
    /\ mstate' = "exit_kfree"
    /\ UNCHANGED <<buf_state, frame_buffer, data_ready, frame_count, tpc,
                   tidx, my_wait_queue, oops, unclaimed, uvars>>
    /\ UNCHANGED <<pvars, fvars, ioctl, chardev>>

\* interrupt_v2_exit: kfree(frame_buffer)
interrupt_v2_exit_kfree ==
    /\ ~oops
    /\ mstate = "exit_kfree"
    /\ buf_state' = "freed"
    /\ mstate' = "exit_destroy"
    /\ UNCHANGED <<frame_buffer, data_ready, frame_count, timer_pending, tpc,
                   tidx, my_wait_queue, oops, unclaimed, uvars>>
    /\ UNCHANGED <<pvars, fvars, ioctl, chardev>>

\* interrupt_v2_exit: device_destroy .. unregister_chrdev_region, return;
\* the kernel then frees the module
interrupt_v2_exit_destroy ==
    /\ ~oops
    /\ mstate = "exit_destroy"
    /\ mstate' = "removed"
    /\ UNCHANGED <<buf_state, frame_buffer, data_ready, frame_count,
                   timer_pending, tpc, tidx, my_wait_queue, oops, unclaimed,
                   uvars>>
    /\ UNCHANGED <<pvars, fvars, ioctl, chardev>>

(* --------------------------- user processes --------------------------- *)

\* positions at which a process executes code of the module
InDriver == {"poll_check", "read_copy", "read_clear"}

\* open("/dev/camera"): my_open returns 0
my_open(r) ==
    /\ ~oops
    /\ pc[r] = "closed"
    /\ DeviceNodeExists
    /\ pc' = [pc EXCEPT ![r] = "idle"]
    /\ UNCHANGED <<kvars, triggered, ret, ubuf, uidx, bytes_to_copy, rseq>>
    /\ UNCHANGED <<pvars, fvars, ioctl, chardev>>

\* close(fd): my_release returns 0
my_release(r) ==
    /\ ~oops
    /\ pc[r] = "idle"
    /\ pc' = [pc EXCEPT ![r] = "closed"]
    /\ UNCHANGED <<kvars, triggered, ret, ubuf, uidx, bytes_to_copy, rseq>>
    /\ UNCHANGED <<pvars, fvars, ioctl, chardev>>

\* my_poll without its poll_wait call: the caller is never put on the queue
my_poll_wait_unregistered(r) ==
    /\ ~oops
    /\ pc[r] = "idle"
    /\ triggered' = [triggered EXCEPT ![r] = FALSE]
    /\ pc' = [pc EXCEPT ![r] = "poll_check"]
    /\ UNCHANGED <<kvars, ret, ubuf, uidx, bytes_to_copy, rseq>>
    /\ UNCHANGED <<pvars, fvars, ioctl, chardev>>

\* poll(fds, 1, -1): the kernel sets up a fresh poll table (triggered = 0)
\* and calls my_poll, whose poll_wait(file, &my_wait_queue, wait) registers
\* the caller on the wait queue
my_poll_wait(r) ==
    /\ ~oops
    /\ pc[r] = "idle"
    /\ triggered' = [triggered EXCEPT ![r] = FALSE]
    /\ my_wait_queue' = my_wait_queue \cup {r}
    /\ pc' = [pc EXCEPT ![r] = "poll_check"]
    /\ UNCHANGED <<mstate, buf_state, frame_buffer, data_ready, frame_count,
                   timer_pending, tpc, tidx, oops, unclaimed,
                   ret, ubuf, uidx, bytes_to_copy, rseq>>
    /\ UNCHANGED <<pvars, fvars, ioctl, chardev>>

\* my_poll: the mask it returns for a value of data_ready
my_poll_mask(ready) == IF ready THEN POLLIN_RDNORM ELSE 0

\* a poll handler that takes the frame it announces: it clears data_ready
\* when it reports the device readable
my_poll_check_consuming(r) ==
    /\ ~oops
    /\ pc[r] = "poll_check"
    /\ IF my_poll_mask(data_ready) # 0
       THEN /\ ret' = [ret EXCEPT ![r] = my_poll_mask(data_ready)]
            /\ pc' = [pc EXCEPT ![r] = "poll_ret"]
            /\ my_wait_queue' = my_wait_queue \ {r}
            /\ data_ready' = FALSE
       ELSE /\ pc' = [pc EXCEPT ![r] = "poll_sched"]
            /\ UNCHANGED <<ret, my_wait_queue, data_ready>>
    /\ UNCHANGED <<mstate, buf_state, frame_buffer, frame_count,
                   timer_pending, tpc, tidx, oops, unclaimed,
                   triggered, ubuf, uidx, bytes_to_copy, rseq>>
    /\ UNCHANGED <<pvars, fvars, ioctl, chardev>>

\* my_poll: if (data_ready) mask |= POLLIN | POLLRDNORM; return mask.
\* A non-zero mask ends poll() (the kernel removes the wait-queue entry);
\* a zero mask sends the caller to sleep.
my_poll_check(r) ==
    /\ ~oops
    /\ pc[r] = "poll_check"
    /\ IF my_poll_mask(data_ready) # 0
       THEN /\ ret' = [ret EXCEPT ![r] = my_poll_mask(data_ready)]
            /\ pc' = [pc EXCEPT ![r] = "poll_ret"]
            /\ my_wait_queue' = my_wait_queue \ {r}
       ELSE /\ pc' = [pc EXCEPT ![r] = "poll_sched"]
            /\ UNCHANGED <<ret, my_wait_queue>>
    /\ UNCHANGED <<mstate, buf_state, frame_buffer, data_ready, frame_count,
                   timer_pending, tpc, tidx, oops, unclaimed,
                   triggered, ubuf, uidx, bytes_to_copy, rseq>>
    /\ UNCHANGED <<pvars, fvars, ioctl, chardev>>

\* the kernel's poll loop after a zero mask: sleep unless a wake-up has
\* arrived since the registration; a wake-up received makes it call my_poll
\* again (poll_wait registers only on the first pass)
poll_schedule(r) ==
    /\ ~oops
    /\ pc[r] = "poll_sched"
    /\ IF triggered[r]
       THEN /\ triggered' = [triggered EXCEPT ![r] = FALSE]
            /\ pc' = [pc EXCEPT ![r] = "poll_check"]
       ELSE /\ pc' = [pc EXCEPT ![r] = "poll_sleep"]
            /\ UNCHANGED triggered
    /\ UNCHANGED <<kvars, ret, ubuf, uidx, bytes_to_copy, rseq>>
    /\ UNCHANGED <<pvars, fvars, ioctl, chardev>>

\* a sleeping poller runs again only after a wake-up on the wait queue
poll_wakeup(r) ==
    /\ ~oops
    /\ pc[r] = "poll_sleep"
    /\ triggered[r]
    /\ triggered' = [triggered EXCEPT ![r] = FALSE]
    /\ pc' = [pc EXCEPT ![r] = "poll_check"]
    /\ UNCHANGED <<kvars, ret, ubuf, uidx, bytes_to_copy, rseq>>
    /\ UNCHANGED <<pvars, fvars, ioctl, chardev>>

\* poll() returns to user space
poll_return(r) ==
    /\ ~oops
    /\ pc[r] = "poll_ret"
    /\ pc' = [pc EXCEPT ![r] = "idle"]
    /\ ret' = [ret EXCEPT ![r] = 0]
    /\ UNCHANGED <<kvars, triggered, ubuf, uidx, bytes_to_copy, rseq>>
    /\ UNCHANGED <<pvars, fvars, ioctl, chardev>>

\* sequence number of the last publish that has set data_ready: frame_count,
\* less the frame the running callback has counted but not yet published
CompletedSeq == IF tpc \in {"gen", "set"} THEN frame_count - 1 ELSE frame_count

\* read(fd, buffer, cnt): the kernel calls my_read, which begins with
\* if (!data_ready) return -EAGAIN and then computes
\* bytes_to_copy = min(count, (size_t)FRAME_SIZE)
my_read_begin(r, cnt) ==
    /\ ~oops
    /\ pc[r] = "idle"
    /\ IF ~data_ready
       THEN /\ ret' = [ret EXCEPT ![r] = -EAGAIN]
            /\ pc' = [pc EXCEPT ![r] = "read_ret"]
            /\ UNCHANGED <<uidx, bytes_to_copy, rseq>>
       ELSE LET n == IF cnt < FRAME_SIZE THEN cnt ELSE FRAME_SIZE IN
            /\ bytes_to_copy' = [bytes_to_copy EXCEPT ![r] = n]
            /\ pc' = [pc EXCEPT ![r] = IF n = 0 THEN "read_clear"
                                                ELSE "read_copy"]
            /\ uidx' = [uidx EXCEPT ![r] = IF n = 0 THEN 0 ELSE 1]
            /\ rseq' = [rseq EXCEPT ![r] = CompletedSeq]
            /\ UNCHANGED ret
    /\ UNCHANGED <<kvars, triggered, ubuf>>
    /\ UNCHANGED <<pvars, fvars, ioctl, chardev>>

\* read(fd, buffer, FRAME_SIZE), the call of the test program and of the
\* streamer
my_read_check(r) == my_read_begin(r, FRAME_SIZE)

\* read(fd, buffer, cnt) with any other count, zero and more than a frame
\* included
my_read_short(r) ==
    \E cnt \in (0..(FRAME_SIZE + 1)) \ {FRAME_SIZE} : my_read_begin(r, cnt)

\* a my_read that marks the frame consumed before it knows that the copy
\* has succeeded
my_read_copy_clears_first(r) ==
    /\ ~oops
    /\ pc[r] = "read_copy"
    /\ \E fault \in BOOLEAN :
         IF fault
         THEN /\ ret' = [ret EXCEPT ![r] = -EFAULT]
              /\ pc' = [pc EXCEPT ![r] = "read_ret"]
              /\ uidx' = [uidx EXCEPT ![r] = 0]
              /\ bytes_to_copy' = [bytes_to_copy EXCEPT ![r] = 0]
              /\ data_ready' = FALSE
              /\ UNCHANGED ubuf
         ELSE /\ ubuf' = [ubuf EXCEPT ![r][uidx[r]] = frame_buffer[uidx[r]]]
              /\ IF uidx[r] < bytes_to_copy[r]
                 THEN /\ uidx' = [uidx EXCEPT ![r] = uidx[r] + 1]
                      /\ UNCHANGED pc
                 ELSE /\ uidx' = [uidx EXCEPT ![r] = 0]
                      /\ pc' = [pc EXCEPT ![r] = "read_clear"]
              /\ UNCHANGED <<ret, data_ready, bytes_to_copy>>
    /\ UNCHANGED <<mstate, buf_state, frame_buffer, frame_count, timer_pending,
                   tpc, tidx, my_wait_queue, oops, unclaimed, triggered, rseq>>
    /\ UNCHANGED <<pvars, fvars, ioctl, chardev>>

\* my_read: copy_to_user(buf, frame_buffer, bytes_to_copy), one pixel per
\* step; a fault on the user buffer makes my_read return -EFAULT
my_read_copy(r) ==
    /\ ~oops
    /\ pc[r] = "read_copy"
    /\ \E fault \in BOOLEAN :
         IF fault
         THEN /\ ret' = [ret EXCEPT ![r] = -EFAULT]
              /\ pc' = [pc EXCEPT ![r] = "read_ret"]
              /\ uidx' = [uidx EXCEPT ![r] = 0]
              /\ bytes_to_copy' = [bytes_to_copy EXCEPT ![r] = 0]
              /\ UNCHANGED ubuf
         ELSE /\ ubuf' = [ubuf EXCEPT ![r][uidx[r]] = frame_buffer[uidx[r]]]
              /\ IF uidx[r] < bytes_to_copy[r]
                 THEN /\ uidx' = [uidx EXCEPT ![r] = uidx[r] + 1]
                      /\ UNCHANGED pc
                 ELSE /\ uidx' = [uidx EXCEPT ![r] = 0]
                      /\ pc' = [pc EXCEPT ![r] = "read_clear"]
              /\ UNCHANGED <<ret, bytes_to_copy>>
    /\ UNCHANGED <<kvars, triggered, rseq>>
    /\ UNCHANGED <<pvars, fvars, ioctl, chardev>>

\* a my_read that leaves the frame ready when the caller has asked for less
\* than a frame
my_read_clear_partial(r) ==
    /\ ~oops
    /\ pc[r] = "read_clear"
    /\ data_ready' = (data_ready /\ bytes_to_copy[r] < FRAME_SIZE)
    /\ unclaimed' = IF ubuf[r] = frame_buffer THEN FALSE ELSE unclaimed
    /\ ret' = [ret EXCEPT ![r] = bytes_to_copy[r]]
    /\ bytes_to_copy' = [bytes_to_copy EXCEPT ![r] = 0]
    /\ pc' = [pc EXCEPT ![r] = "read_ret"]
    /\ UNCHANGED <<mstate, buf_state, frame_buffer, frame_count, timer_pending,
                   tpc, tidx, my_wait_queue, oops, triggered, ubuf, uidx,
                   rseq>>
    /\ UNCHANGED <<pvars, fvars, ioctl, chardev>>

\* my_read: data_ready = false; return bytes_to_copy
my_read_clear(r) ==
    /\ ~oops
    /\ pc[r] = "read_clear"
    /\ data_ready' = FALSE
    /\ unclaimed' = IF ubuf[r] = frame_buffer THEN FALSE ELSE unclaimed
    /\ ret' = [ret EXCEPT ![r] = bytes_to_copy[r]]
    /\ bytes_to_copy' = [bytes_to_copy EXCEPT ![r] = 0]
    /\ pc' = [pc EXCEPT ![r] = "read_ret"]
    /\ UNCHANGED <<mstate, buf_state, frame_buffer, frame_count, timer_pending,
                   tpc, tidx, my_wait_queue, oops, triggered, ubuf, uidx,
                   rseq>>
    /\ UNCHANGED <<pvars, fvars, ioctl, chardev>>

\* read() returns to user space; the process is done with the data
read_return(r) ==
    /\ ~oops
    /\ pc[r] = "read_ret"
    /\ pc' = [pc EXCEPT ![r] = "idle"]
    /\ ret' = [ret EXCEPT ![r] = 0]
    /\ ubuf' = [ubuf EXCEPT ![r] = EmptyBuf]
    /\ rseq' = [rseq EXCEPT ![r] = 0]
    /\ UNCHANGED <<kvars, triggered, uidx, bytes_to_copy>>
    /\ UNCHANGED <<pvars, fvars, ioctl, chardev>>

\* Code of the module that runs after the module has been freed (a timer
\* callback that del_timer did not wait for or that a re-armed timer starts,
\* a handler running or entered through a file that is still open) may
\* fault at any instruction.
kernel_oops ==
    /\ ~oops
    /\ ModuleGone
    /\ \/ tpc # "idle"
       \/ timer_pending
       \/ \E r \in Readers : pc[r] \in InDriver \cup {"idle"}
    /\ oops' = TRUE
    /\ UNCHANGED <<mstate, buf_state, frame_buffer, data_ready, frame_count,
                   timer_pending, tpc, tidx, my_wait_queue, unclaimed, uvars>>
    /\ UNCHANGED <<pvars, fvars, ioctl, chardev>>

(* ------------------------------ poll driver --------------------------- *)

Min(a, b) == IF a < b THEN a ELSE b

\* bit `bit` (a power of two) is set in mask
HasBit(mask, bit) == (mask \div bit) % 2 = 1

\* wake_up_interruptible(&dev->..._queue) as the pollers see it: the wake
\* function of every registered poll entry sets triggered
pollwake(q) == [u \in DOMAIN utrig |-> utrig[u] \/ u \in q]

\* open("/dev/poll_device", flags): poll_open returns 0
poll_open(u) ==
    /\ pd_loaded
    /\ upc[u] = "closed"
    /\ \E nb \in BOOLEAN : nonblock' = [nonblock EXCEPT ![u] = nb]
    /\ upc' = [upc EXCEPT ![u] = "idle"]
    /\ UNCHANGED <<pd_loaded, written, dev_buffer, buffer_size, data_available, mutex,
                   read_queue, write_queue, count, udata, uret, utrig>>
    /\ UNCHANGED <<kvars, uvars, fvars, ioctl, chardev>>

\* close(fd): poll_release returns 0
poll_release(u) ==
    /\ upc[u] = "idle"
    /\ upc' = [upc EXCEPT ![u] = "closed"]
    /\ nonblock' = [nonblock EXCEPT ![u] = FALSE]
    /\ UNCHANGED <<pd_loaded, written, dev_buffer, buffer_size, data_available, mutex,
                   read_queue, write_queue, count, udata, uret, utrig>>
    /\ UNCHANGED <<kvars, uvars, fvars, ioctl, chardev>>

\* a mutex that is handed to every caller at once, held or not
mutex_lock_always(u, locked, blocked) ==
    /\ mutex' = u
    /\ upc' = [upc EXCEPT ![u] = locked]

\* first attempt on dev->mutex of a handler: the free mutex is taken at
\* once, otherwise the caller blocks
mutex_lock_fast(u, locked, blocked) ==
    IF mutex = 0
    THEN /\ mutex' = u
         /\ upc' = [upc EXCEPT ![u] = locked]
    ELSE /\ mutex' = mutex
         /\ upc' = [upc EXCEPT ![u] = blocked]

\* mutex_lock_interruptible of a blocked caller (poll_read, poll_write): it
\* gets the mutex once it is free; a signal while it is blocked makes the
\* handler return -ERESTARTSYS
mutex_lock_interruptible(u) ==
    /\ upc[u] \in {"rd_lock", "wr_lock"}
    /\ \/ /\ mutex = 0
          /\ mutex' = u
          /\ upc' = [upc EXCEPT ![u] = IF upc[u] = "rd_lock" THEN "rd_check"
                                                            ELSE "wr_copy"]
          /\ UNCHANGED uret
       \/ /\ mutex # 0
          /\ uret' = [uret EXCEPT ![u] = -ERESTARTSYS]
          /\ upc' = [upc EXCEPT ![u] = "ret"]
          /\ UNCHANGED mutex
    /\ UNCHANGED <<pd_loaded, written, dev_buffer, buffer_size, data_available,
                   read_queue, write_queue, nonblock, count, udata, utrig>>
    /\ UNCHANGED <<kvars, uvars, fvars, ioctl, chardev>>

\* read(fd, buf, count): poll_read, mutex_lock_interruptible
poll_read_enter(u) ==
    /\ upc[u] = "idle"
    /\ mutex_lock_fast(u, "rd_check", "rd_lock")
    /\ UNCHANGED <<pd_loaded, written, dev_buffer, buffer_size, data_available,
                   read_queue, write_queue, nonblock, count, udata, uret,
                   utrig>>
    /\ UNCHANGED <<kvars, uvars, fvars, ioctl, chardev>>

\* poll_read with the mutex held: the O_NONBLOCK test (nb: its outcome for
\* the caller's descriptor), the test of the while loop, and the copy to the
\* caller, followed by mutex_unlock and, after a successful copy,
\* wake_up_interruptible(&dev->write_queue).  The count argument of the call
\* (c) is first used by the copy and is drawn there.
poll_read_locked(u, nb) ==
    /\ upc[u] = "rd_check"
    /\ IF ~data_available
       THEN /\ IF nb
               THEN /\ uret' = [uret EXCEPT ![u] = -EAGAIN]
                    /\ upc' = [upc EXCEPT ![u] = "ret"]
               ELSE /\ upc' = [upc EXCEPT ![u] = "rd_wait"]
                    /\ UNCHANGED uret
            /\ UNCHANGED <<dev_buffer, buffer_size, data_available, count,
                           udata, utrig>>
       ELSE \E c \in 0..BUFFER_SIZE :
            LET n == Min(c, buffer_size) IN
            /\ count' = [count EXCEPT ![u] = c]
            /\ \E fault \in (IF n > 0 THEN BOOLEAN ELSE {FALSE}) :
                 IF fault
                 THEN \* copy_to_user fails: the caller's buffer is invalid
                      /\ uret' = [uret EXCEPT ![u] = -EFAULT]
                      /\ upc' = [upc EXCEPT ![u] = "ret"]
                      /\ UNCHANGED <<dev_buffer, buffer_size, data_available,
                                     udata, utrig>>
                 ELSE /\ udata' = [udata EXCEPT ![u] = SubSeq(dev_buffer, 1, n)]
                      /\ buffer_size' = 0
                      /\ data_available' = FALSE
                      /\ uret' = [uret EXCEPT ![u] = n]
                      /\ utrig' = pollwake(write_queue)
                      /\ upc' = [upc EXCEPT ![u] = "ret"]
                      /\ UNCHANGED dev_buffer
    /\ mutex' = 0
    /\ UNCHANGED <<pd_loaded, written, read_queue, write_queue, nonblock>>
    /\ UNCHANGED <<kvars, uvars, fvars, ioctl, chardev>>

\* poll_read without its O_NONBLOCK test: an empty device sends every
\* caller to wait_event_interruptible
poll_read_check_always_waits(u) == poll_read_locked(u, FALSE)

\* poll_read with the mutex held, filp->f_flags & O_NONBLOCK as the caller's
\* descriptor has it
poll_read_check(u) == poll_read_locked(u, nonblock[u])

\* poll_read: wait_event_interruptible(dev->read_queue, dev->data_available),
\* then mutex_lock_interruptible; a signal while it waits makes poll_read
\* return -ERESTARTSYS
poll_read_wait(u) ==
    /\ upc[u] = "rd_wait"
    /\ \/ /\ data_available
          /\ mutex_lock_fast(u, "rd_check", "rd_lock")
          /\ UNCHANGED uret
       \/ /\ ~data_available
          /\ uret' = [uret EXCEPT ![u] = -ERESTARTSYS]
          /\ upc' = [upc EXCEPT ![u] = "ret"]
          /\ UNCHANGED mutex
    /\ UNCHANGED <<pd_loaded, written, dev_buffer, buffer_size, data_available,
                   read_queue, write_queue, nonblock, count, udata, utrig>>
    /\ UNCHANGED <<kvars, uvars, fvars, ioctl, chardev>>

\* write(fd, buf, count): poll_write, mutex_lock_interruptible
poll_write_enter(u) ==
    /\ upc[u] = "idle"
    /\ mutex_lock_fast(u, "wr_copy", "wr_lock")
    /\ UNCHANGED <<pd_loaded, written, dev_buffer, buffer_size, data_available,
                   read_queue, write_queue, nonblock, count, udata, uret,
                   utrig>>
    /\ UNCHANGED <<kvars, uvars, fvars, ioctl, chardev>>

\* poll_write with the mutex held: copy_from_user(dev->buffer, buf,
\* min(count, BUFFER_SIZE)); a fault after k bytes leaves the k bytes in the
\* buffer, zeroes the rest of the destination and returns -EFAULT; then
\* mutex_unlock and, after a successful copy,
\* wake_up_interruptible(&dev->read_queue).  The arguments of the call (count
\* c, a buffer of c equal bytes b) are first used by the copy and are drawn
\* there.
poll_write_copy(u) ==
    /\ upc[u] = "wr_copy"
    /\ \E c \in 0..(BUFFER_SIZE + 1) : \E b \in Bytes :
       LET n == Min(c, BUFFER_SIZE) IN
       \E k \in 0..n :
         IF k < n
         THEN /\ dev_buffer' = [i \in 1..BUFFER_SIZE |->
                                  IF i <= k THEN b
                                  ELSE IF i <= n THEN 0 ELSE dev_buffer[i]]
              /\ uret' = [uret EXCEPT ![u] = -EFAULT]
              /\ upc' = [upc EXCEPT ![u] = "ret"]
              /\ UNCHANGED <<buffer_size, data_available, utrig, written>>
         ELSE /\ dev_buffer' = [i \in 1..BUFFER_SIZE |->
                                  IF i <= n THEN b ELSE dev_buffer[i]]
              /\ buffer_size' = n
              /\ data_available' = TRUE
              /\ written' = TRUE
              /\ uret' = [uret EXCEPT ![u] = n]
              /\ utrig' = pollwake(read_queue)
              /\ upc' = [upc EXCEPT ![u] = "ret"]
    /\ mutex' = 0
    /\ count' = [count EXCEPT ![u] = 0]
    /\ udata' = [udata EXCEPT ![u] = <<>>]
    /\ UNCHANGED <<pd_loaded, read_queue, write_queue, nonblock>>
    /\ UNCHANGED <<kvars, uvars, fvars, ioctl, chardev>>

\* poll(fds, 1, timeout) with events = POLLIN: the kernel sets up a fresh
\* poll table and calls poll_poll, whose poll_wait calls register the caller
\* on both wait queues; then mutex_lock(&dev->mutex)
poll_poll_wait(u) ==
    /\ upc[u] = "idle"
    /\ utrig' = [utrig EXCEPT ![u] = FALSE]
    /\ read_queue' = read_queue \cup {u}
    /\ write_queue' = write_queue \cup {u}
    /\ mutex_lock_fast(u, "pl_check", "pl_lock")
    /\ UNCHANGED <<pd_loaded, written, dev_buffer, buffer_size, data_available,
                   nonblock, count, udata, uret>>
    /\ UNCHANGED <<kvars, uvars, fvars, ioctl, chardev>>

\* mutex_lock of a blocked poll_poll ("_to": on the pass after the timeout)
mutex_lock(u) ==
    /\ upc[u] \in {"pl_lock", "pl_lock_to"}
    /\ mutex = 0
    /\ mutex' = u
    /\ upc' = [upc EXCEPT ![u] = IF upc[u] = "pl_lock" THEN "pl_check"
                                                      ELSE "pl_check_to"]
    /\ UNCHANGED <<pd_loaded, written, dev_buffer, buffer_size, data_available,
                   read_queue, write_queue, nonblock, count, udata, uret,
                   utrig>>
    /\ UNCHANGED <<kvars, uvars, fvars, ioctl, chardev>>

\* poll_poll: the mask it returns for a value of data_available
poll_poll_mask(avail) ==
    (IF avail THEN POLLIN + POLLRDNORM ELSE 0) + POLLOUT + POLLWRNORM

\* a kernel that reports every event of the mask, requested or not
revents_unfiltered(mask) == mask

\* the kernel reports the requested events only (events = POLLIN)
revents(mask) == IF HasBit(mask, POLLIN) THEN POLLIN ELSE 0

\* poll_poll with the mutex held, and the kernel's use of the mask: a
\* requested event ends poll(); without one the caller sleeps, or returns 0
\* when the timeout has expired.  A poll() that returns frees its poll table.
poll_poll_check(u) ==
    /\ upc[u] \in {"pl_check", "pl_check_to"}
    /\ mutex' = 0
    /\ IF revents(poll_poll_mask(data_available)) # 0
       THEN /\ uret' = [uret EXCEPT ![u] = revents(poll_poll_mask(data_available))]
            /\ upc' = [upc EXCEPT ![u] = "pl_ret"]
            /\ read_queue' = read_queue \ {u}
            /\ write_queue' = write_queue \ {u}
       ELSE IF upc[u] = "pl_check_to"
       THEN /\ uret' = [uret EXCEPT ![u] = 0]
            /\ upc' = [upc EXCEPT ![u] = "pl_ret"]
            /\ read_queue' = read_queue \ {u}
            /\ write_queue' = write_queue \ {u}
       ELSE /\ upc' = [upc EXCEPT ![u] = "pl_sleep"]
            /\ UNCHANGED <<uret, read_queue, write_queue>>
    /\ utrig' = [utrig EXCEPT ![u] = utrig[u] /\ upc'[u] = "pl_sleep"]
    /\ UNCHANGED <<pd_loaded, written, dev_buffer, buffer_size, data_available,
                   nonblock, count, udata>>
    /\ UNCHANGED <<kvars, uvars, fvars, ioctl, chardev>>

\* the kernel's poll loop after a mask without a requested event: the caller
\* sleeps until a wake-up on one of the queues or until the timeout expires,
\* and then calls poll_poll once more
poll_sleep(u) ==
    /\ upc[u] = "pl_sleep"
    /\ IF utrig[u]
       THEN /\ utrig' = [utrig EXCEPT ![u] = FALSE]
            /\ mutex_lock_fast(u, "pl_check", "pl_lock")
       ELSE /\ mutex_lock_fast(u, "pl_check_to", "pl_lock_to")
            /\ UNCHANGED utrig
    /\ UNCHANGED <<pd_loaded, written, dev_buffer, buffer_size, data_available,
                   read_queue, write_queue, nonblock, count, udata, uret>>
    /\ UNCHANGED <<kvars, uvars, fvars, ioctl, chardev>>

\* the system call returns to user space; the thread is done with the result
syscall_return(u) ==
    /\ upc[u] \in {"ret", "pl_ret"}
    /\ upc' = [upc EXCEPT ![u] = "idle"]
    /\ count' = [count EXCEPT ![u] = 0]
    /\ udata' = [udata EXCEPT ![u] = <<>>]
    /\ uret' = [uret EXCEPT ![u] = 0]
    /\ UNCHANGED <<pd_loaded, written, dev_buffer, buffer_size, data_available,
                   mutex, read_queue, write_queue, nonblock, utrig>>
    /\ UNCHANGED <<kvars, uvars, fvars, ioctl, chardev>>

(* ----------------------------- frame streamer ------------------------- *)

\* close(fd) or free(p) called for each of names in turn, on the resource
\* table rs: a held resource becomes released; releasing one that is not
\* held (never acquired, or released before) is recorded as "bad"
RECURSIVE release(_, _)
release(rs, names) ==
    IF names = <<>> THEN rs
    ELSE release([rs EXCEPT ![Head(names)] =
                      IF rs[Head(names)] = "held" THEN "released" ELSE "bad"],
                 Tail(names))

\* one start-up call of main: on success main holds what the call returns
\* and goes on, on failure it prints the error, releases what it holds and
\* returns 1
startup_step(here, next) ==
    LET acquired == CASE here = "malloc" -> {"buffer"}
                      [] here = "open" -> {"device_fd"}
                      [] here = "socket" -> {"server_fd"}
                      [] here = "accept" -> {"client_fd"}
                      [] OTHER -> {}
        closed == CASE here = "malloc" -> <<>>
                    [] here = "open" -> <<"buffer">>
                    [] here = "socket" -> <<"device_fd", "buffer">>
                    [] OTHER -> <<"server_fd", "device_fd", "buffer">>
    IN
    /\ fpc = here
    /\ \E ok \in BOOLEAN :
         IF ok
         THEN /\ fpc' = next
              /\ res' = [x \in DOMAIN res |->
                            IF x \in acquired THEN "held" ELSE res[x]]
              /\ UNCHANGED exit_status
         ELSE /\ fpc' = "exit"
              /\ res' = release(res, closed)
              /\ exit_status' = 1
    /\ UNCHANGED <<buffer, bytes_read, total_sent, fs_frame_count, wire,
                   wire_mark, short_write, claimed>>
    /\ UNCHANGED <<kvars, uvars, pvars, ioctl, chardev>>

\* main: buffer = malloc(FRAME_SIZE)
streamer_malloc == startup_step("malloc", "open")

\* main: device_fd = open("/dev/camera", O_RDONLY)
streamer_open == startup_step("open", "socket")

\* main: server_fd = socket(AF_INET, SOCK_STREAM, 0); setsockopt
streamer_socket == startup_step("socket", "bind")

\* main: bind(server_fd, ...)
streamer_bind == startup_step("bind", "listen")

\* main: listen(server_fd, 1)
streamer_listen == startup_step("listen", "accept")

\* main with an accept failure that is not reported in the exit status
streamer_accept_unreported ==
    /\ fpc = "accept"
    /\ \E ok \in BOOLEAN :
         /\ fpc' = IF ok THEN "loop" ELSE "exit"
         /\ exit_status' = IF ok THEN exit_status ELSE 0
    /\ UNCHANGED <<buffer, bytes_read, total_sent, fs_frame_count, wire,
                   wire_mark, short_write, claimed, res>>
    /\ UNCHANGED <<kvars, uvars, pvars, ioctl, chardev>>

\* main: client_fd = accept(server_fd, ...)
streamer_accept == startup_step("accept", "loop")

\* main: while (frame_count < MAX_FRAMES) { ret = poll(fds, 1, -1); ... }:
\* poll fails (break), reports POLLIN, or reports another event
streamer_poll ==
    /\ fpc \in {"loop", "sent"}
    /\ IF fs_frame_count < MAX_FRAMES
       THEN \E outcome \in {"error", "pollin", "other"} :
              fpc' = CASE outcome = "error" -> "done"
                       [] outcome = "pollin" -> "read"
                       [] outcome = "other" -> "loop"
       ELSE fpc' = "done"
    /\ UNCHANGED <<buffer, bytes_read, total_sent, fs_frame_count, wire,
                   wire_mark, short_write>>
    /\ UNCHANGED <<exit_status, claimed, res>>
    /\ UNCHANGED <<kvars, uvars, pvars, ioctl, chardev>>

\* main: bytes_read = read(device_fd, buffer, FRAME_SIZE); a negative result
\* or 0 leaves the loop, otherwise frame_count++ and total_sent = 0
streamer_read ==
    /\ fpc = "read"
    /\ \E n \in -1..MaxReadLen :
         /\ bytes_read' = n
         /\ IF n <= 0
            THEN /\ fpc' = "done"
                 /\ UNCHANGED <<buffer, total_sent, fs_frame_count, wire_mark,
                                short_write, claimed, res>>
            ELSE /\ \E frame \in [1..n -> Bytes] :
                      /\ buffer' = frame
                      /\ claimed' = claimed \o frame
                 /\ fs_frame_count' = fs_frame_count + 1
                 /\ total_sent' = 0
                 /\ wire_mark' = Len(wire)
                 /\ short_write' = FALSE
                 /\ fpc' = "send"
    /\ UNCHANGED <<wire, exit_status, res>>
    /\ UNCHANGED <<kvars, uvars, pvars, ioctl, chardev>>

\* the send loop with a failed send that leaves through the end of the
\* streaming loop, where the completion message is printed
streamer_send_breaks ==
    /\ fpc = "send"
    /\ total_sent < bytes_read
    /\ \E sent \in -1..(bytes_read - total_sent) :
         IF sent < 0
         THEN /\ fpc' = "done"
              /\ UNCHANGED <<total_sent, wire, short_write>>
         ELSE /\ total_sent' = total_sent + sent
              /\ wire' = wire \o SubSeq(buffer, total_sent + 1, total_sent + sent)
              /\ short_write' = (short_write \/ sent < bytes_read - total_sent)
              /\ fpc' = "send"
    /\ UNCHANGED <<buffer, bytes_read, fs_frame_count, wire_mark>>
    /\ UNCHANGED <<exit_status, claimed, res>>
    /\ UNCHANGED <<kvars, uvars, pvars, ioctl, chardev>>

\* the send loop without its retry: the frame counts as sent after one send
streamer_send_once ==
    /\ fpc = "send"
    /\ total_sent < bytes_read
    /\ \E sent \in -1..(bytes_read - total_sent) :
         IF sent < 0
         THEN /\ fpc' = "cleanup"
              /\ UNCHANGED <<total_sent, wire, short_write>>
         ELSE /\ total_sent' = total_sent + sent
              /\ wire' = wire \o SubSeq(buffer, total_sent + 1, total_sent + sent)
              /\ short_write' = (short_write \/ sent < bytes_read - total_sent)
              /\ fpc' = "sent"
    /\ UNCHANGED <<buffer, bytes_read, fs_frame_count, wire_mark>>
    /\ UNCHANGED <<exit_status, claimed, res>>
    /\ UNCHANGED <<kvars, uvars, pvars, ioctl, chardev>>

\* the send loop with a failed send that only ends the frame: main goes on
\* with the next frame
streamer_send_skips_failure ==
    /\ fpc = "send"
    /\ total_sent < bytes_read
    /\ \E sent \in -1..(bytes_read - total_sent) :
         IF sent < 0
         THEN /\ fpc' = "loop"
              /\ UNCHANGED <<total_sent, wire, short_write>>
         ELSE /\ total_sent' = total_sent + sent
              /\ wire' = wire \o SubSeq(buffer, total_sent + 1, total_sent + sent)
              /\ short_write' = (short_write \/ sent < bytes_read - total_sent)
              /\ fpc' = "send"
    /\ UNCHANGED <<buffer, bytes_read, fs_frame_count, wire_mark>>
    /\ UNCHANGED <<exit_status, claimed, res>>
    /\ UNCHANGED <<kvars, uvars, pvars, ioctl, chardev>>

\* main: one iteration of while (total_sent < bytes_read): sent = send(
\* client_fd, buffer + total_sent, bytes_read - total_sent, 0); a negative
\* result jumps to cleanup, otherwise total_sent += sent.  The peer receives
\* the bytes the transport has accepted.
streamer_send ==
    /\ fpc = "send"
    /\ total_sent < bytes_read
    /\ \E sent \in -1..(bytes_read - total_sent) :
         IF sent < 0
         THEN /\ fpc' = "cleanup"
              /\ UNCHANGED <<total_sent, wire, short_write>>
         ELSE /\ total_sent' = total_sent + sent
              /\ wire' = wire \o SubSeq(buffer, total_sent + 1, total_sent + sent)
              /\ short_write' = (short_write \/ sent < bytes_read - total_sent)
              /\ fpc' = "send"
    /\ UNCHANGED <<buffer, bytes_read, fs_frame_count, wire_mark>>
    /\ UNCHANGED <<exit_status, claimed, res>>
    /\ UNCHANGED <<kvars, uvars, pvars, ioctl, chardev>>

\* main: the send loop ends; printf("[%d] Sent %zd bytes")
streamer_sent ==
    /\ fpc = "send"
    /\ ~(total_sent < bytes_read)
    /\ fpc' = "sent"
    /\ UNCHANGED <<buffer, bytes_read, total_sent, fs_frame_count, wire,
                   wire_mark, short_write>>
    /\ UNCHANGED <<exit_status, claimed, res>>
    /\ UNCHANGED <<kvars, uvars, pvars, ioctl, chardev>>

\* main: printf("Transmitted %d frames. Closing connection.")
streamer_done ==
    /\ fpc = "done"
    /\ fpc' = "cleanup"
    /\ UNCHANGED <<buffer, bytes_read, total_sent, fs_frame_count, wire,
                   wire_mark, short_write>>
    /\ UNCHANGED <<exit_status, claimed, res>>
    /\ UNCHANGED <<kvars, uvars, pvars, ioctl, chardev>>

\* a cleanup that leaves the listening socket open
streamer_cleanup_keeps_server ==
    /\ fpc = "cleanup"
    /\ fpc' = "exit"
    /\ res' = release(res, <<"client_fd", "device_fd", "buffer">>)
    /\ exit_status' = 0
    /\ UNCHANGED <<buffer, bytes_read, total_sent, fs_frame_count, wire,
                   wire_mark, short_write, claimed>>
    /\ UNCHANGED <<kvars, uvars, pvars, ioctl, chardev>>

\* main: cleanup: close(client_fd); close(server_fd); close(device_fd);
\* free(buffer); return 0
streamer_cleanup ==
    /\ fpc = "cleanup"
    /\ fpc' = "exit"
    /\ res' = release(res, <<"client_fd", "server_fd", "device_fd", "buffer">>)
    /\ exit_status' = 0
    /\ UNCHANGED <<buffer, bytes_read, total_sent, fs_frame_count, wire,
                   wire_mark, short_write, claimed>>
    /\ UNCHANGED <<kvars, uvars, pvars, ioctl, chardev>>

(* --------------------------- specification ---------------------------- *)

Producer ==
    \/ timer_callback_fire
    \/ generate_test_pattern
    \/ simulate_camera_interrupt_set
    \/ simulate_camera_interrupt_wake
    \/ timer_callback_rearm

Lifecycle(forced) ==
    \/ interrupt_v2_init_kmalloc
    \/ interrupt_v2_init_timer
    \/ \E force \in forced : interrupt_v2_exit_del_timer(force)
    \/ interrupt_v2_exit_kfree
    \/ interrupt_v2_exit_destroy
    \/ kernel_oops

Reader(r) ==
    \/ my_open(r)
    \/ my_release(r)
    \/ my_poll_wait(r)
    \/ my_poll_check(r)
    \/ poll_schedule(r)
    \/ poll_wakeup(r)
    \/ poll_return(r)
    \/ my_read_check(r)
    \/ my_read_copy(r)
    \/ my_read_clear(r)
    \/ read_return(r)

\* the module is unloaded by a plain rmmod
Next ==
    \/ Producer
    \/ Lifecycle({FALSE})
    \/ \E r \in Readers : Reader(r)

Spec == Init /\ [][Next]_vars

\* the module may also be unloaded by a forced rmmod while files are open
NextForced ==
    \/ Producer
    \/ Lifecycle(BOOLEAN)
    \/ \E r \in Readers : Reader(r)

SpecForced == Init /\ [][NextForced]_vars

(* ------------------ one consumer and the producer --------------------- *)

\* the process of the one-consumer scenario
Consumer == 1

\* the steps the kernel takes for a process inside poll(): they are taken
\* whenever the process is runnable
PollKernelSteps(r) == my_poll_check(r) \/ poll_schedule(r) \/ poll_wakeup(r)

\* one process uses the device; the module stays loaded
NextOneReader ==
    \/ Producer
    \/ interrupt_v2_init_kmalloc
    \/ interrupt_v2_init_timer
    \/ kernel_oops
    \/ Reader(Consumer)

\* The timer softirq runs every callback to its end and a runnable task is
\* scheduled eventually; what user space does between system calls is free.
SpecOneReader ==
    /\ Init
    /\ [][NextOneReader]_vars
    /\ WF_vars(Producer)
    /\ WF_vars(PollKernelSteps(Consumer))

(* ------------------------- poll driver alone --------------------------- *)

\* poll_driver_init has returned 0; the camera module is not loaded
InitPoll ==
    /\ pd_loaded = TRUE
    /\ PollStatics
    /\ CameraUnloaded
    /\ StreamerOff
    /\ OthersUnloaded

User(u) ==
    \/ poll_open(u)
    \/ poll_release(u)
    \/ mutex_lock_interruptible(u)
    \/ mutex_lock(u)
    \/ poll_read_enter(u)
    \/ poll_read_check(u)
    \/ poll_read_wait(u)
    \/ poll_write_enter(u)
    \/ poll_write_copy(u)
    \/ poll_poll_wait(u)
    \/ poll_poll_check(u)
    \/ poll_sleep(u)
    \/ syscall_return(u)

NextPoll == \E u \in Users : User(u)

SpecPoll == InitPoll /\ [][NextPoll]_vars

(* ------------------- either driver loaded (insmod) --------------------- *)

InitDrivers == Init \/ InitPoll

NextDrivers == Next \/ NextPoll

SpecDrivers == InitDrivers /\ [][NextDrivers]_vars

(* --------------------------- streamer alone ---------------------------- *)

\* main has opened the device and accepted the client; the drivers' state
\* is behind poll() and read()
InitSend ==
    /\ fpc = "loop"
    /\ StreamerLocals
    /\ res = [x \in Resources |-> "held"]
    /\ CameraUnloaded
    /\ PollDriverUnloaded
    /\ OthersUnloaded

NextSend ==
    \/ streamer_poll
    \/ streamer_read
    \/ streamer_send
    \/ streamer_sent
    \/ streamer_done
    \/ streamer_cleanup

SpecSend == InitSend /\ [][NextSend]_vars

(* ------------------- streamer from the start of main ------------------- *)

\* the streamer's main starts
InitMain ==
    /\ fpc = "malloc"
    /\ StreamerLocals
    /\ res = [x \in Resources |-> "none"]
    /\ CameraUnloaded
    /\ PollDriverUnloaded
    /\ OthersUnloaded

StartupSteps == {"malloc", "open", "socket", "bind", "listen", "accept"}

Startup ==
    \/ streamer_malloc
    \/ streamer_open
    \/ streamer_socket
    \/ streamer_bind
    \/ streamer_listen
    \/ streamer_accept

NextMain == Startup \/ NextSend

SpecMain == InitMain /\ [][NextMain]_vars

(* -------------------- streamer on the camera device -------------------- *)

\* the streamer as a process on the camera device (device_fd), and the
\* other process that may have the device open
Streamer == 1
Other == 2

\* main: while (frame_count < MAX_FRAMES): ret = poll(fds, 1, -1) is called,
\* or the loop ends
streamer_poll_device ==
    /\ fpc \in {"loop", "sent"}
    /\ pc[Streamer] = "idle"
    /\ fpc' = IF fs_frame_count < MAX_FRAMES THEN "poll" ELSE "done"
    /\ UNCHANGED <<buffer, bytes_read, total_sent, fs_frame_count, wire,
                   wire_mark, short_write, exit_status, claimed, res>>
    /\ UNCHANGED <<kvars, uvars, pvars, ioctl, chardev>>

\* main: poll has returned: if (ret < 0) break;
\* if (fds[0].revents & POLLIN) read, otherwise the next iteration
streamer_poll_result ==
    /\ fpc = "poll"
    /\ pc[Streamer] = "poll_ret"
    /\ fpc' = IF ret[Streamer] < 0 THEN "done"
              ELSE IF HasBit(ret[Streamer], POLLIN) THEN "read" ELSE "loop"
    /\ UNCHANGED <<buffer, bytes_read, total_sent, fs_frame_count, wire,
                   wire_mark, short_write, exit_status, claimed, res>>
    /\ UNCHANGED <<kvars, uvars, pvars, ioctl, chardev>>

\* main: bytes_read = read(device_fd, buffer, FRAME_SIZE) has returned: a
\* negative result or 0 leaves the loop, otherwise frame_count++ and
\* total_sent = 0
streamer_read_result ==
    /\ fpc = "read"
    /\ pc[Streamer] = "read_ret"
    /\ bytes_read' = ret[Streamer]
    /\ IF ret[Streamer] <= 0
       THEN /\ fpc' = "done"
            /\ UNCHANGED <<buffer, total_sent, fs_frame_count, wire_mark,
                           short_write, claimed, res>>
       ELSE /\ buffer' = ubuf[Streamer]
            /\ claimed' = claimed \o ubuf[Streamer]
            /\ fs_frame_count' = fs_frame_count + 1
            /\ total_sent' = 0
            /\ wire_mark' = Len(wire)
            /\ short_write' = FALSE
            /\ fpc' = "send"
    /\ UNCHANGED <<wire, exit_status, res>>
    /\ UNCHANGED <<kvars, uvars, pvars, ioctl, chardev>>

\* the streamer's poll(fds, 1, -1) in the kernel
streamer_in_poll ==
    /\ fpc = "poll"
    /\ my_poll_wait(Streamer) \/ PollKernelSteps(Streamer)

\* the streamer's read(device_fd, buffer, FRAME_SIZE) in the kernel
streamer_in_read ==
    /\ fpc = "read"
    /\ \/ my_read_check(Streamer)
       \/ my_read_copy(Streamer)
       \/ my_read_clear(Streamer)

\* the kernel returns to main once main has taken the call's result
streamer_syscall_exit ==
    \/ fpc # "poll" /\ poll_return(Streamer)
    \/ fpc # "read" /\ read_return(Streamer)

\* a cleanup that resets the camera on close: it clears data_ready and
\* stops the timer
streamer_close_device_resets ==
    /\ fpc = "cleanup"
    /\ pc[Streamer] = "idle"
    /\ pc' = [pc EXCEPT ![Streamer] = "closed"]
    /\ data_ready' = FALSE
    /\ timer_pending' = FALSE
    /\ UNCHANGED <<mstate, buf_state, frame_buffer, frame_count, tpc, tidx,
                   my_wait_queue, oops, unclaimed,
                   triggered, ret, ubuf, uidx, bytes_to_copy, rseq>>
    /\ UNCHANGED <<pvars, fvars, ioctl, chardev>>

\* main: cleanup: close(client_fd); close(server_fd); close(device_fd)
streamer_close_device ==
    /\ fpc = "cleanup"
    /\ my_release(Streamer)

\* main: cleanup: free(buffer); return 0
streamer_return ==
    /\ pc[Streamer] = "closed"
    /\ streamer_cleanup

\* interrupt_v2_init has returned 0 (frame buffer allocated, timer armed);
\* the streamer's main has opened /dev/camera and accepted the client
InitStream ==
    /\ mstate = "live"
    /\ buf_state = "alloc"
    /\ frame_buffer = EmptyBuf
    /\ data_ready = FALSE
    /\ frame_count = 0
    /\ timer_pending = TRUE
    /\ tpc = "idle"
    /\ tidx = 0
    /\ my_wait_queue = {}
    /\ oops = FALSE
    /\ unclaimed = FALSE
    /\ pc = [r \in Readers |-> IF r = Streamer THEN "idle" ELSE "closed"]
    /\ triggered = [r \in Readers |-> FALSE]
    /\ ret = [r \in Readers |-> 0]
    /\ ubuf = [r \in Readers |-> EmptyBuf]
    /\ uidx = [r \in Readers |-> 0]
    /\ bytes_to_copy = [r \in Readers |-> 0]
    /\ rseq = [r \in Readers |-> 0]
    /\ PollDriverUnloaded
    /\ fpc = "loop"
    /\ StreamerLocals
    /\ res = [x \in Resources |-> "held"]
    /\ OthersUnloaded

\* main from its loop to its return, with its system calls on the device
StreamerMain ==
    \/ streamer_poll_device
    \/ streamer_in_poll
    \/ streamer_poll_result
    \/ streamer_in_read
    \/ streamer_read_result
    \/ streamer_syscall_exit
    \/ streamer_send
    \/ streamer_sent
    \/ streamer_done
    \/ streamer_close_device
    \/ streamer_return

\* the streamer is the only process that opens the device
NextStreamAlone == Producer \/ StreamerMain

SpecStreamAlone == InitStream /\ [][NextStreamAlone]_vars

\* another process that reads the device without polling it
OtherReads ==
    \/ my_open(Other)
    \/ my_read_check(Other)
    \/ my_read_copy(Other)
    \/ my_read_clear(Other)
    \/ read_return(Other)
    \/ my_release(Other)

\* another process reads the device while the streamer runs
NextStream == Producer \/ StreamerMain \/ OtherReads

SpecStream == InitStream /\ [][NextStream]_vars

(* ------------------------------ claims -------------------------------- *)

\* C1 -- No missed wakeup: when the producer sets data_ready after the
\* consumer's my_poll has observed data_ready == false and before the consumer
\* sleeps, the consumer's poll(-1) still returns readable (POLLIN | POLLRDNORM)
\* and does not sleep forever.
NoMissedWakeup ==
    (pc[Consumer] = "poll_sched" /\ data_ready)
        ~> (pc[Consumer] = "poll_ret" /\ ret[Consumer] = POLLIN_RDNORM)

\* C1 witness: the whole publish (flag and wake_up) fell between the
\* consumer's check and its sleep
PublishBetweenCheckAndSleep ==
    /\ pc[Consumer] = "poll_sched"
    /\ data_ready
    /\ triggered[Consumer]
    /\ tpc \in {"rearm", "idle"}

\* a read that has returned a whole frame to process r
GotFrame(r) == pc[r] = "read_ret" /\ ret[r] = FRAME_SIZE

\* C2 -- Exclusivity: no published frame is returned to two readers; of the
\* readers racing for one publish exactly one gets the frame, the others get
\* -EAGAIN.
Exclusivity ==
    \A r1, r2 \in Readers :
        (r1 # r2 /\ GotFrame(r1) /\ GotFrame(r2)) => ubuf[r1] # ubuf[r2]

\* C3 -- No partial frame observed: the bytes a successful read returns all
\* come from one single publish.
NoPartialFrame ==
    \A r \in Readers :
        GotFrame(r) => \E k \in 1..MaxFrames : ubuf[r] = Frame(k)

\* C4 -- Latest-wins: a successful claim returns the most recent publish that
\* completed before the claim started (and so never an older or a mixed one).
LatestWins ==
    \A r \in Readers : GotFrame(r) => ubuf[r] = Frame(rseq[r])

\* no publish and no claim is in progress
Quiescent ==
    /\ tpc = "idle"
    /\ \A r \in Readers : pc[r] \notin {"read_copy", "read_clear"}

\* C5 -- Ready-flag invariant: outside a publish or claim in progress,
\* data_ready is true if and only if the slot holds a published frame that no
\* reader has yet claimed; a frame published between a reader's copy and its
\* clearing of data_ready is still claimable afterwards.
ReadyFlagInvariant == Quiescent => (data_ready <=> unclaimed)

\* del_timer in interrupt_v2_exit has returned
StopReturned == mstate \in {"exit_kfree", "exit_destroy", "removed"}

\* C6 -- Synchronous producer stop: after del_timer in interrupt_v2_exit has
\* returned the timer callback does not run and is not armed again, so no
\* further publish occurs.
StopIsSynchronous == StopReturned => (tpc = "idle" /\ ~timer_pending)

\* interrupt_v2_exit has run to its end and the producer is dead
TeardownComplete ==
    /\ mstate = "removed"
    /\ buf_state = "freed"
    /\ tpc = "idle"
    /\ ~timer_pending

\* C7 -- Shutdown correctness: a reader blocked in poll(-1) when the channel
\* is torn down is woken; once teardown is complete no reader is left asleep
\* without a wake-up.
ShutdownWakesReaders ==
    TeardownComplete =>
        \A r \in Readers : ~(pc[r] = "poll_sleep" /\ ~triggered[r])

\* the channel is closed once teardown has released the slot
ChannelClosed == buf_state = "freed"

\* C8 -- Closed is terminal: once the channel is closed it stays closed and
\* no later publish changes the slot or the ready flag.
ClosedIsTerminal ==
    [][ChannelClosed =>
          /\ ChannelClosed'
          /\ data_ready' = data_ready
          /\ frame_buffer' = frame_buffer]_vars

\* a read of the camera device that tests data_ready and finds it false
\* returns -EAGAIN at once and changes nothing
CameraReadWouldBlock ==
    \A r \in Readers :
        (pc[r] = "idle" /\ pc'[r] \in {"read_ret", "read_copy"} /\ ~data_ready)
        => /\ pc'[r] = "read_ret"
           /\ ret'[r] = -EAGAIN
           /\ data_ready' = data_ready
           /\ frame_buffer' = frame_buffer
           /\ frame_count' = frame_count

\* a read on an O_NONBLOCK descriptor of the poll device that tests
\* data_available and finds it false returns -EAGAIN with the mutex released,
\* does not wait on the read queue and changes nothing
PollReadWouldBlock ==
    \A u \in Users :
        (upc[u] = "rd_check" /\ upc'[u] # "rd_check" /\ nonblock[u]
           /\ ~data_available)
        => /\ upc'[u] = "ret"
           /\ uret'[u] = -EAGAIN
           /\ mutex' = 0
           /\ data_available' = data_available
           /\ dev_buffer' = dev_buffer
           /\ buffer_size' = buffer_size

\* a read on an O_NONBLOCK descriptor issued while data_available is false
\* does not block on entry
PollReadEntersWithoutSleeping ==
    \A u \in Users :
        (upc[u] = "idle" /\ upc'[u] \in {"rd_check", "rd_lock"} /\ nonblock[u]
           /\ ~data_available)
        => upc'[u] = "rd_check"

\* C9 -- Non-blocking claim, as the drivers implement it: a read that finds
\* the ready flag false when it tests it returns -EAGAIN without waiting for
\* data and leaves the ready flag, the slot contents and the sequence counter
\* unchanged.  The camera driver tests the flag first thing in every read; the
\* poll driver tests it, for a descriptor opened with O_NONBLOCK, once the
\* read holds dev->mutex.
NonBlockingClaim == [][CameraReadWouldBlock /\ PollReadWouldBlock]_vars

\* C9 as stated: a read issued while the ready flag is false returns -EAGAIN
\* without sleeping, in the poll driver too (O_NONBLOCK descriptor)
NonBlockingClaimAtIssue ==
    [][/\ CameraReadWouldBlock
       /\ PollReadWouldBlock
       /\ PollReadEntersWithoutSleeping]_vars

\* C9 witness: on a device that has carried data before, an O_NONBLOCK read
\* has found data_available false and has returned -EAGAIN
NonBlockingReadReturnedEAGAIN ==
    \E u \in Users :
        /\ nonblock[u]
        /\ upc[u] = "ret"
        /\ uret[u] = -EAGAIN
        /\ ~data_available
        /\ dev_buffer # ZeroBuf

\* the same case in the camera driver: a read has returned -EAGAIN after a
\* frame had been published and claimed
CameraReadReturnedEAGAIN ==
    \E r \in Readers :
        /\ pc[r] = "read_ret"
        /\ ret[r] = -EAGAIN
        /\ frame_count > 0

\* what the peer has received of the current frame
Delivered == SubSeq(wire, wire_mark + 1, Len(wire))

\* C10 -- Write completeness: whatever the partial results of send are, the
\* peer has received exactly the first total_sent bytes of the frame, in
\* order, each once; the frame is reported as sent only when total_sent
\* equals the bytes_read of the frame and the peer has the whole frame.
WriteCompleteness ==
    /\ fpc \in {"send", "sent"} =>
          /\ total_sent <= bytes_read
          /\ Delivered = SubSeq(buffer, 1, total_sent)
    /\ fpc = "sent" =>
          /\ total_sent = bytes_read
          /\ Delivered = buffer

\* C10 witness: the second frame, of the greatest length, has been reported
\* as sent after a send that accepted only a part of what was requested
SentAfterShortWrite ==
    /\ fpc = "sent"
    /\ short_write
    /\ bytes_read = MaxReadLen
    /\ fs_frame_count = MAX_FRAMES
    /\ wire_mark > 0

\* C14 -- Forwarder exit status: main returns 0 after it has transmitted
\* MAX_FRAMES frames, and returns a non-zero status when malloc, open, socket,
\* bind, listen or accept fails; a start-up failure ends main with no frame
\* read from the device and nothing sent.
ExitStatus ==
    [][/\ (fpc \in StartupSteps /\ fpc' \notin StartupSteps \cup {"loop"})
          => /\ fpc' = "exit"
             /\ exit_status' \notin {0, -1}
             /\ fs_frame_count' = 0
             /\ claimed' = <<>>
             /\ wire' = <<>>
       /\ (fpc' = "exit" /\ fs_frame_count = MAX_FRAMES
             /\ total_sent = bytes_read)
          => exit_status' = 0]_vars

\* C14 witness: main has ended with status 1 before its loop
StartupFailed ==
    /\ fpc = "exit"
    /\ exit_status = 1
    /\ fs_frame_count = 0
    /\ wire = <<>>

\* C19 -- Frame-by-frame ordering on the wire: what the peer has received is
\* a prefix of the concatenation of the frames main has read, in the order of
\* the reads; main is at its poll or read only when every frame read so far
\* has been sent to its last byte, and while a frame is being sent the frames
\* before it are on the wire in full.
FrameByFrame ==
    /\ Len(wire) <= Len(claimed)
    /\ wire = SubSeq(claimed, 1, Len(wire))
    /\ fpc \in {"loop", "read", "sent"} => wire = claimed
    /\ fpc = "send" =>
          /\ Len(claimed) = wire_mark + bytes_read
          /\ Len(wire) = wire_mark + total_sent

\* C19 witness: the first frame is on the wire in full and the second frame
\* is partly sent
SecondFramePartlySent ==
    /\ fpc = "send"
    /\ fs_frame_count = 2
    /\ wire_mark > 0
    /\ total_sent > 0
    /\ total_sent < bytes_read

\* C20 -- Slot state machine: every step that changes the slot is one of
\* EMPTY -> READY by publish, READY -> READY by publish, READY -> EMPTY by a
\* successful claim (so a read that returns a frame finds data_ready true when
\* it clears it); the slot contents change only inside a publish; frame_count
\* goes up by exactly one when simulate_camera_interrupt starts a publish,
\* overwriting or not, and nothing else changes it.
SlotStateMachine ==
    [][/\ data_ready' # data_ready =>
             \/ ~data_ready /\ tpc = "set" /\ tpc' = "wake"
             \/ /\ data_ready
                /\ \E r \in Readers :
                     pc[r] = "read_clear" /\ pc'[r] = "read_ret"
                        /\ ret'[r] = FRAME_SIZE
       /\ (tpc = "set" /\ tpc' = "wake") => data_ready'
       /\ \A r \in Readers :
            (pc[r] = "read_clear" /\ pc'[r] = "read_ret") =>
                data_ready /\ ~data_ready'
       /\ frame_buffer' # frame_buffer => tpc = "gen"
       /\ frame_count' # frame_count => tpc = "idle" /\ tpc' = "gen"
       /\ (tpc = "idle" /\ tpc' = "gen") => frame_count' = frame_count + 1]_vars

\* C15 -- Timeout semantics: on a poll device to which nothing has ever been
\* written, a poll with a finite timeout does not return from a pass made
\* before the timeout has expired (it sleeps), returns 0 with POLLIN not set
\* from the pass made after it, and no read has returned data.  On a camera
\* device on which no publish has completed, my_poll reports nothing, so that
\* poll does not return, and no read has returned a frame.
TimeoutSemantics ==
    [][/\ ~written =>
            /\ \A u \in Users :
                 (upc[u] \in {"pl_check", "pl_check_to"} /\ upc'[u] # upc[u]) =>
                     IF upc[u] = "pl_check_to"
                     THEN upc'[u] = "pl_ret" /\ uret'[u] = 0
                     ELSE upc'[u] = "pl_sleep"
            /\ \A u \in Users : upc[u] = "ret" => uret[u] < 0
       /\ CompletedSeq = 0 =>
            /\ \A r \in Readers :
                 (pc[r] = "poll_check" /\ pc'[r] # "poll_check") =>
                     pc'[r] = "poll_sched"
            /\ \A r \in Readers : ~GotFrame(r)]_vars

\* C15 witness: a poll on the never-written device has timed out
PollTimedOut ==
    \E u \in Users :
        /\ ~written
        /\ upc[u] = "pl_ret"
        /\ uret[u] = 0

\* the pollers that sleep in poll() with no wake-up delivered to them
SleepersNotWoken ==
    {r \in Readers : pc[r] = "poll_sleep" /\ ~triggered[r]}

\* the pollers of the poll device that sleep with no wake-up delivered
PollSleepersNotWoken ==
    {u \in Users : upc[u] = "pl_sleep" /\ ~utrig[u]}

ReadableIffFlag ==
    /\ \A r \in Readers :
         (pc[r] = "poll_check" /\ pc'[r] # "poll_check") =>
             IF data_ready
             THEN pc'[r] = "poll_ret" /\ ret'[r] = POLLIN_RDNORM
             ELSE pc'[r] = "poll_sched"
    /\ \A u \in Users :
         (upc[u] \in {"pl_check", "pl_check_to"} /\ upc'[u] # upc[u]) =>
             IF data_available
             THEN upc'[u] = "pl_ret" /\ uret'[u] = POLLIN
             ELSE upc'[u] = "pl_sleep" \/ (upc'[u] = "pl_ret" /\ uret'[u] = 0)

\* a read of the poll device that finds data_available set returns the first
\* min(count, buffer_size) bytes of the buffer
PollReadReturnsData ==
    \A u \in Users :
        (upc[u] = "rd_check" /\ upc'[u] = "ret" /\ uret'[u] >= 0) =>
            /\ data_available
            /\ udata'[u] = SubSeq(dev_buffer, 1, Min(count'[u], buffer_size))
            /\ uret'[u] = Min(count'[u], buffer_size)

\* a read of the camera that found data_ready set returns a published frame
CameraReadReturnsData ==
    \A r \in Readers :
        (pc[r] = "read_clear" /\ pc'[r] = "read_ret") =>
            \E k \in 1..MaxFrames : ubuf[r] = Frame(k)

\* C17 -- Readiness result: the poll handler reports the device readable if
\* and only if the ready flag is set when the handler tests it, so a poll
\* called after data has been made available returns readable from its
\* first pass; and the read that follows and finds the flag set returns the
\* data of the device (camera: a published frame; poll device: the bytes
\* written).
ReadinessResult ==
    [][ReadableIffFlag /\ PollReadReturnsData /\ CameraReadReturnsData]_vars

\* the positions of a process inside poll() on the camera device
InCameraPoll == {"poll_check", "poll_sched", "poll_sleep", "poll_ret"}

\* the positions of a thread inside poll() on the poll device
InPollPoll ==
    {"pl_lock", "pl_check", "pl_sleep", "pl_lock_to", "pl_check_to", "pl_ret"}

\* C18 -- Readiness poll does not consume: every step of a poll() call, the
\* handler (my_poll, poll_poll) included, leaves the ready flag, the slot
\* contents, the stored length and the sequence counter unchanged whatever
\* it returns; so a poll whose check runs while the flag is set reports the
\* device readable, however many polls came before it.
PollDoesNotConsume ==
    [][/\ (\E r \in Readers :
              /\ pc'[r] # pc[r]
              /\ pc[r] \in InCameraPoll \/ pc'[r] \in InCameraPoll)
          => /\ data_ready' = data_ready
             /\ frame_buffer' = frame_buffer
             /\ frame_count' = frame_count
       /\ (\E u \in Users :
              /\ upc'[u] # upc[u]
              /\ upc[u] \in InPollPoll \/ upc'[u] \in InPollPoll)
          => /\ data_available' = data_available
             /\ dev_buffer' = dev_buffer
             /\ buffer_size' = buffer_size
       /\ ReadableIffFlag]_vars

\* C18 witness: both consumers have polled the same published frame, both
\* polls have reported the device readable and the frame is still there
AllPollsReadable ==
    /\ data_ready
    /\ frame_buffer = Frame(frame_count)
    /\ \A r \in Readers : pc[r] = "poll_ret" /\ ret[r] = POLLIN_RDNORM

\* main leaves its streaming loop
LoopEnds == fpc \notin {"done", "cleanup", "exit"} /\ fpc' \in {"done", "cleanup"}

\* C11 -- Forwarder stop conditions: the streaming loop ends only when
\* MAX_FRAMES frames have been read and sent, when a send has failed, or when
\* the device read has returned its terminal result (0, or an error other
\* than would-block); a read that returns -EAGAIN does not end the loop: the
\* forwarder goes back to poll.
ForwarderStopConditions ==
    [][/\ LoopEnds =>
            \/ fs_frame_count = MAX_FRAMES /\ total_sent = bytes_read
            \/ fpc = "send" /\ fpc' = "cleanup"
            \/ fpc = "read" /\ bytes_read' <= 0 /\ bytes_read' # -EAGAIN
       /\ (fpc = "read" /\ pc[Streamer] = "read_ret" /\ ret[Streamer] = -EAGAIN
              /\ fpc' # "read")
            => fpc' \in {"loop", "poll"}]_vars

\* the i-th frame the peer has received
WireFrame(i) == SubSeq(wire, (i - 1) * FRAME_SIZE + 1, i * FRAME_SIZE)

\* main has left its loop with every frame read and sent
Completed ==
    /\ fpc \in {"done", "cleanup", "exit"}
    /\ fs_frame_count = MAX_FRAMES
    /\ total_sent = bytes_read

\* C12 -- End-to-end: with the streamer as the only reader, when main has
\* completed its MAX_FRAMES frames the peer has received exactly MAX_FRAMES
\* frames of FRAME_SIZE bytes each, every one a published frame, with
\* strictly increasing sequence numbers (so pairwise distinct, none
\* forwarded twice, none out of publish order).
EndToEnd ==
    Completed =>
        /\ Len(wire) = MAX_FRAMES * FRAME_SIZE
        /\ \E ks \in [1..MAX_FRAMES -> 1..MaxFrames] :
             /\ \A i \in 1..MAX_FRAMES : WireFrame(i) = Frame(ks[i])
             /\ \A i, j \in 1..MAX_FRAMES : i < j => ks[i] < ks[j]

\* a send to the peer has failed in this session
SendFailed == fpc \in {"cleanup", "exit"} /\ total_sent < bytes_read

\* the channel and the producer: the ready flag, the slot, the sequence
\* counter and the timer with its running callback
ChannelAndProducer ==
    <<data_ready, frame_buffer, frame_count, timer_pending, tpc, tidx,
      mstate, buf_state>>

\* C13 -- Session isolation: the failing send takes main out of its loop to
\* cleanup, where it closes the connection and the device and returns; none
\* of these steps changes the ready flag, the slot, the sequence counter or
\* the timer, and after them the module is still loaded with its timer armed
\* or its callback running, so the producer keeps publishing.
SessionIsolation ==
    [][/\ (fpc = "send" /\ fpc' # "send" /\ total_sent < bytes_read) =>
            /\ fpc' = "cleanup"
            /\ ChannelAndProducer' = ChannelAndProducer
       /\ (SendFailed /\ (fpc' # fpc \/ pc'[Streamer] # pc[Streamer])) =>
            /\ fpc' = "exit" \/ pc'[Streamer] \in {"idle", "closed"}
            /\ ChannelAndProducer' = ChannelAndProducer
       /\ SendFailed' =>
            /\ mstate' = "live"
            /\ buf_state' = "alloc"
            /\ ~oops'
            /\ timer_pending' \/ tpc' # "idle"]_vars

\* C13 witness: main has returned after a failed send, the device is closed,
\* and the timer callback is publishing the next frame
ProducerRunsAfterFailure ==
    /\ SendFailed
    /\ fpc = "exit"
    /\ pc[Streamer] = "closed"
    /\ tpc = "gen"
    /\ frame_count > 1

(* ------------------- the publish path never blocks --------------------- *)

\* the next statement of the running timer_callback
CallbackStep ==
    \/ generate_test_pattern
    \/ simulate_camera_interrupt_set
    \/ simulate_camera_interrupt_wake
    \/ timer_callback_rearm

\* the number of statements the running callback has executed
CallbackProgress ==
    CASE tpc = "idle" -> 0
      [] tpc = "gen" -> tidx
      [] tpc = "set" -> FRAME_SIZE + 1
      [] tpc = "wake" -> FRAME_SIZE + 2
      [] tpc = "rearm" -> FRAME_SIZE + 3

\* C21: while the kernel runs (it has not faulted), a timer_callback that has
\* been entered can always execute its next statement, whatever the readers
\* are doing: it takes no lock and waits for no reader.  Every step either
\* is not the callback's (it leaves the callback where it is) or takes the
\* callback one statement further, so a callback returns after FRAME_SIZE + 4
\* steps of its own; and a pending timer can always fire when no callback
\* runs.
PublishNeverBlocks ==
    /\ [](~oops =>
            /\ tpc # "idle" => ENABLED CallbackStep
            /\ (timer_pending /\ tpc = "idle" /\ frame_count < MaxFrames)
                   => ENABLED timer_callback_fire
            /\ CallbackProgress <= FRAME_SIZE + 3)
    /\ [][\/ tpc' = tpc /\ tidx' = tidx
          \/ CallbackProgress' = CallbackProgress + 1
          \/ tpc = "rearm" /\ tpc' = "idle"]_vars

\* C21 witness: the callback has set data_ready and is about to wake the
\* sleepers while both processes are inside my_read, between the test of
\* the flag and its clearing
PublishedDuringClaims ==
    /\ tpc = "wake"
    /\ \A r \in Readers : pc[r] \in {"read_copy", "read_clear"}

(* ----------------------------- ioctl driver --------------------------- *)

\* reset_device: the device state it leaves
reset_device ==
    [params |-> DefaultParams, is_streaming |-> 0, frame_count |-> 0]

\* a validation that does not look at the white balance
validate_params_without_wb(params) ==
    IF params.gain > 100 THEN -EINVAL
    ELSE IF params.exposure < 1 \/ params.exposure > 1000 THEN -EINVAL
    ELSE 0

\* a validation that forgets the lower limit of the exposure
validate_params_no_minimum(params) ==
    IF params.gain > 100 THEN -EINVAL
    ELSE IF params.exposure > 1000 THEN -EINVAL
    ELSE IF params.wb_temp < 2000 \/ params.wb_temp > 10000 THEN -EINVAL
    ELSE 0

\* validate_params: 0 if valid, -EINVAL if invalid
validate_params(params) ==
    IF params.gain > 100 THEN -EINVAL
    ELSE IF params.exposure < 1 \/ params.exposure > 1000 THEN -EINVAL
    ELSE IF params.wb_temp < 2000 \/ params.wb_temp > 10000 THEN -EINVAL
    ELSE 0

\* IOCTL_GET_STATUS: the struct device_status built from the device state
device_status ==
    [is_streaming |-> ioctl.is_streaming, frame_count |-> ioctl.frame_count,
     params |-> ioctl.params]

\* a start that does not test whether the device is already streaming
start_stream_unchecked == IF ioctl.is_streaming # 0 THEN 0 ELSE 0

\* IOCTL_START_STREAM: -EBUSY if the device is already streaming
start_stream == IF ioctl.is_streaming # 0 THEN -EBUSY ELSE 0

\* IOCTL_STOP_STREAM: -EINVAL if the device is not streaming
stop_stream == IF ioctl.is_streaming = 0 THEN -EINVAL ELSE 0

\* a process calls ioctl(fd, cmd, arg)
ioctl_call(c) ==
    /\ ioctl.pc[c] = "user"
    /\ \E cmd \in IoctlCmds :
         ioctl' = [ioctl EXCEPT !.cmd[c] = cmd, !.arg[c] = NoArg, !.ret[c] = 0,
                                !.pc[c] = "lock"]
    /\ UNCHANGED <<kvars, uvars, pvars, fvars, chardev>>

\* a device_ioctl that does not wait for the lock (a mutex_trylock whose
\* result is ignored)
device_ioctl_trylock(c) ==
    /\ ioctl.pc[c] = "lock"
    /\ ioctl' = [ioctl EXCEPT !.lock = c, !.pc[c] = "switch"]
    /\ UNCHANGED <<kvars, uvars, pvars, fvars, chardev>>

\* device_ioctl: mutex_lock(&dev_state->lock), which sleeps until the lock
\* is free
device_ioctl_lock(c) ==
    /\ ioctl.pc[c] = "lock"
    /\ ioctl.lock = 0
    /\ ioctl' = [ioctl EXCEPT !.lock = c, !.pc[c] = "switch"]
    /\ UNCHANGED <<kvars, uvars, pvars, fvars, chardev>>

\* device_ioctl, the first half of a case of the switch: the copy from or
\* to user space, the validation and the tests of the device state.  A copy
\* may fault (-EFAULT).  A case that has passed its tests and has device
\* state to write goes on to its stores; every other case is finished.
device_ioctl_switch(c) ==
    /\ ioctl.pc[c] = "switch"
    /\ LET done(r, a) ==
             ioctl' = [ioctl EXCEPT
                         !.ret[c] = r, !.arg[c] = a,
                         !.pc[c] = IF r = 0 /\ ioctl.cmd[c] \in
                                        {"RESET", "SET_PARAMS", "START_STREAM",
                                         "STOP_STREAM"}
                                   THEN "store" ELSE "unlock"]
       IN  CASE ioctl.cmd[c] = "RESET" -> done(0, NoArg)
             [] ioctl.cmd[c] = "SET_PARAMS" ->
                  \/ done(-EFAULT, NoArg)
                  \/ \E params \in ParamInputs :
                        done(validate_params(params), params)
             [] ioctl.cmd[c] = "GET_PARAMS" ->
                  done(-EFAULT, NoArg) \/ done(0, ioctl.params)
             [] ioctl.cmd[c] = "GET_STATUS" ->
                  done(-EFAULT, NoArg) \/ done(0, device_status)
             [] ioctl.cmd[c] = "START_STREAM" -> done(start_stream, NoArg)
             [] ioctl.cmd[c] = "STOP_STREAM" -> done(stop_stream, NoArg)
             [] OTHER -> done(-ENOTTY, NoArg)
    /\ UNCHANGED <<kvars, uvars, pvars, fvars, chardev>>

\* a store of the parameters that copies the gain only
set_params_gain_only(params) == [ioctl.params EXCEPT !.gain = params.gain]

\* IOCTL_SET_PARAMS: dev_state->params = params (a structure assignment)
set_params(params) == params

\* device_ioctl, the second half of a case: the stores into dev_state
device_ioctl_store(c) ==
    /\ ioctl.pc[c] = "store"
    /\ CASE ioctl.cmd[c] = "RESET" ->
              ioctl' = [ioctl EXCEPT !.params = reset_device.params,
                                     !.is_streaming = reset_device.is_streaming,
                                     !.frame_count = reset_device.frame_count,
                                     !.given = DefaultParams,
                                     !.pc[c] = "unlock"]
         [] ioctl.cmd[c] = "SET_PARAMS" ->
              ioctl' = [ioctl EXCEPT !.params = set_params(ioctl.arg[c]),
                                     !.given = ioctl.arg[c],
                                     !.pc[c] = "unlock"]
         [] ioctl.cmd[c] = "START_STREAM" ->
              ioctl' = [ioctl EXCEPT !.is_streaming = 1, !.frame_count = 0,
                                     !.pc[c] = "unlock"]
         [] ioctl.cmd[c] = "STOP_STREAM" ->
              ioctl' = [ioctl EXCEPT !.is_streaming = 0, !.pc[c] = "unlock"]
    /\ UNCHANGED <<kvars, uvars, pvars, fvars, chardev>>

\* device_ioctl: mutex_unlock(&dev_state->lock); return ret.  The caller
\* reads the structure a GET command filled in as soon as the call returns.
device_ioctl_unlock(c) ==
    /\ ioctl.pc[c] = "unlock"
    /\ ioctl' = [ioctl EXCEPT !.lock = 0, !.pc[c] = "user", !.arg[c] = NoArg]
    /\ UNCHANGED <<kvars, uvars, pvars, fvars, chardev>>

\* the module is loaded and both processes have opened the device
InitIoctl ==
    /\ ioctl = IoctlLoaded
    /\ chardev = "off"
    /\ CameraUnloaded
    /\ PollDriverUnloaded
    /\ StreamerOff

NextIoctl ==
    \E c \in Callers :
        \/ ioctl_call(c)
        \/ device_ioctl_lock(c)
        \/ device_ioctl_switch(c)
        \/ device_ioctl_store(c)
        \/ device_ioctl_unlock(c)

SpecIoctl == InitIoctl /\ [][NextIoctl]_vars

(* ------------------------ ioctl driver: properties --------------------- *)

\* struct device_state without its lock
DevState == <<ioctl.params, ioctl.is_streaming, ioctl.frame_count>>

\* C22: an IOCTL_SET_PARAMS whose structure has a field out of range (gain
\* above 100, exposure below 1 or above 1000, wb_temp below 2000 or above
\* 10000) returns -EINVAL and leaves the stored parameters, the streaming
\* flag and the frame counter as they were; with every field in range it
\* returns 0 and stores exactly the given values, leaving the streaming flag
\* and the frame counter alone.
SetParamsValidation ==
    [][\A c \in Callers : ioctl.cmd[c] = "SET_PARAMS" =>
         LET InRange(p) == /\ p.gain <= 100
                           /\ p.exposure >= 1 /\ p.exposure <= 1000
                           /\ p.wb_temp >= 2000 /\ p.wb_temp <= 10000
         IN  /\ (ioctl.pc[c] = "switch" /\ ioctl'.pc[c] # "switch" /\ ioctl'.arg[c] # NoArg) =>
                   IF InRange(ioctl'.arg[c])
                   THEN ioctl'.pc[c] = "store" /\ ioctl'.ret[c] = 0 /\ DevState' = DevState
                   ELSE ioctl'.pc[c] = "unlock" /\ ioctl'.ret[c] = -EINVAL /\ DevState' = DevState
             /\ (ioctl.pc[c] = "store" /\ ioctl'.pc[c] # "store") =>
                   /\ InRange(ioctl.arg[c])
                   /\ ioctl'.pc[c] = "unlock" /\ ioctl'.ret[c] = 0
                   /\ DevState' = <<ioctl.arg[c], ioctl.is_streaming, ioctl.frame_count>>
             /\ (ioctl.pc[c] = "unlock" /\ ioctl'.pc[c] # "unlock") =>
                   /\ ioctl'.pc[c] = "user" /\ ioctl'.ret[c] = ioctl.ret[c]
                   /\ DevState' = DevState]_vars

\* C22 witness: a SET_PARAMS with exposure 0 has failed with -EINVAL while
\* the device holds parameters an earlier SET_PARAMS stored
SetParamsRejected ==
    \E c \in Callers :
        /\ ioctl.cmd[c] = "SET_PARAMS" /\ ioctl.pc[c] = "unlock"
        /\ ioctl.ret[c] = -EINVAL
        /\ ioctl.arg[c].exposure = 0
        /\ ioctl.params # DefaultParams

\* C23: IOCTL_GET_PARAMS and the params field of IOCTL_GET_STATUS return
\* exactly the parameters of the last SET_PARAMS that succeeded (the
\* defaults after a RESET or before any SET_PARAMS), and no step of a
\* GET_PARAMS or GET_STATUS call changes the device state.
SetGetRoundTrip ==
    [][\A c \in Callers : ioctl.cmd[c] \in {"GET_PARAMS", "GET_STATUS"} =>
         /\ (ioctl.pc[c] # "user" /\ ioctl'.pc[c] # ioctl.pc[c]) => DevState' = DevState
         /\ (ioctl.pc[c] = "switch" /\ ioctl'.pc[c] # "switch") =>
               /\ ioctl'.pc[c] = "unlock"
               /\ \/ ioctl'.ret[c] = -EFAULT
                  \/ /\ ioctl'.ret[c] = 0
                     /\ IF ioctl.cmd[c] = "GET_PARAMS"
                        THEN ioctl'.arg[c] = ioctl.given
                        ELSE /\ ioctl'.arg[c].params = ioctl.given
                             /\ ioctl'.arg[c].is_streaming = ioctl.is_streaming
                             /\ ioctl'.arg[c].frame_count = ioctl.frame_count]_vars

\* C23 witness: a GET_STATUS has returned parameters that a SET_PARAMS stored
\* while the device is streaming
StatusReadBack ==
    \E c \in Callers :
        /\ ioctl.cmd[c] = "GET_STATUS" /\ ioctl.pc[c] = "unlock"
        /\ ioctl.ret[c] = 0
        /\ ioctl.arg[c].params # DefaultParams
        /\ ioctl.arg[c].is_streaming = 1

\* C24: an IOCTL_START_STREAM on a streaming device returns -EBUSY and
\* leaves is_streaming, frame_count and the parameters unchanged; on a
\* device that is not streaming it returns 0 and leaves is_streaming = 1
\* and frame_count = 0, the parameters unchanged.
DoubleStart ==
    [][\A c \in Callers : ioctl.cmd[c] = "START_STREAM" =>
         /\ (ioctl.pc[c] = "switch" /\ ioctl'.pc[c] # "switch") =>
               /\ DevState' = DevState
               /\ IF ioctl.is_streaming # 0
                  THEN ioctl'.pc[c] = "unlock" /\ ioctl'.ret[c] = -EBUSY
                  ELSE ioctl'.pc[c] = "store" /\ ioctl'.ret[c] = 0
         /\ (ioctl.pc[c] = "store" /\ ioctl'.pc[c] # "store") =>
               /\ ioctl.is_streaming = 0
               /\ ioctl'.pc[c] = "unlock" /\ ioctl'.ret[c] = 0
               /\ DevState' = <<ioctl.params, 1, 0>>
         /\ (ioctl.pc[c] = "unlock" /\ ioctl'.pc[c] # "unlock") =>
               /\ ioctl'.pc[c] = "user" /\ ioctl'.ret[c] = ioctl.ret[c]
               /\ DevState' = DevState]_vars

\* C24 witness: a START_STREAM has failed with -EBUSY on a streaming device
\* that holds parameters a SET_PARAMS stored
StartRefused ==
    \E c \in Callers :
        /\ ioctl.cmd[c] = "START_STREAM" /\ ioctl.pc[c] = "unlock"
        /\ ioctl.ret[c] = -EBUSY
        /\ ioctl.is_streaming = 1
        /\ ioctl.params # DefaultParams

\* the result and the effect of the command of caller c, executed alone on
\* the device state of the step that ends its switch case
SequentialOutcome(c) ==
    LET r == ioctl'.ret[c]
        a == ioctl'.arg[c]
        same == DevState' = DevState
    IN  CASE ioctl.cmd[c] = "RESET" -> r = 0 /\ DevState' = <<DefaultParams, 0, 0>>
          [] ioctl.cmd[c] = "SET_PARAMS" ->
               \/ r = -EFAULT /\ same
               \/ a # NoArg /\ validate_params(a) # 0 /\ r = -EINVAL /\ same
               \/ /\ a # NoArg /\ validate_params(a) = 0 /\ r = 0
                  /\ DevState' = <<a, ioctl.is_streaming, ioctl.frame_count>>
          [] ioctl.cmd[c] = "GET_PARAMS" ->
               same /\ (r = -EFAULT \/ (r = 0 /\ a = ioctl.params))
          [] ioctl.cmd[c] = "GET_STATUS" ->
               same /\ (r = -EFAULT \/ (r = 0 /\ a = device_status))
          [] ioctl.cmd[c] = "START_STREAM" ->
               IF ioctl.is_streaming # 0 THEN r = -EBUSY /\ same
               ELSE r = 0 /\ DevState' = <<ioctl.params, 1, 0>>
          [] ioctl.cmd[c] = "STOP_STREAM" ->
               IF ioctl.is_streaming = 0 THEN r = -EINVAL /\ same
               ELSE r = 0 /\ DevState' = <<ioctl.params, 0, ioctl.frame_count>>
          [] OTHER -> r = -ENOTTY /\ same

\* C25: concurrent ioctl calls execute one at a time under dev_state->lock:
\* a caller is between mutex_lock and mutex_unlock exactly when it holds the
\* lock, so at most one is, and a caller that has returned (on an error path
\* too) does not hold it; the device state changes only in the step that
\* ends the lock holder's switch case; and at that step the call's result
\* and effect are those of its command executed alone on the current device
\* state, so the outcome of concurrent calls is that of the calls in the
\* order in which they took the lock (of two concurrent START_STREAM calls
\* on a stopped device one returns 0 and the other -EBUSY).
IoctlMutualExclusion ==
    /\ [](\A c \in Callers :
             ioctl.pc[c] \in {"switch", "store", "unlock"} <=> ioctl.lock = c)
    /\ [][/\ DevState' # DevState =>
               \E c \in Callers : ioctl.lock = c /\ ioctl.pc[c] = "store"
                                     /\ ioctl'.pc[c] = "unlock"
          /\ \A c \in Callers :
               (ioctl.pc[c] \in {"switch", "store"} /\ ioctl'.pc[c] = "unlock") =>
                   SequentialOutcome(c)
          /\ \A c \in Callers :
               (ioctl.pc[c] = "unlock" /\ ioctl'.pc[c] # "unlock") =>
                   ioctl'.pc[c] = "user" /\ ioctl'.lock = 0 /\ ioctl'.ret[c] = ioctl.ret[c]]_vars

\* C25 witness: two START_STREAM calls are in progress on a stopped device;
\* one holds the lock and is about to start the stream, the other waits in
\* mutex_lock
ConcurrentStarts ==
    \E c, d \in Callers :
        /\ ioctl.cmd[c] = "START_STREAM" /\ ioctl.pc[c] = "store"
        /\ ioctl.cmd[d] = "START_STREAM" /\ ioctl.pc[d] = "lock"
        /\ ioctl.is_streaming = 0

(* --------------------------- character device -------------------------- *)

\* open("/dev/hello"): device_open returns 0; the new file's position is 0
device_open(p) ==
    /\ chardev.pc[p] = "closed"
    /\ chardev' = [chardev EXCEPT !.pc[p] = "user", !.offset[p] = 0]
    /\ UNCHANGED <<kvars, uvars, pvars, fvars, ioctl>>

\* close(fd): device_release returns 0
device_release(p) ==
    /\ chardev.pc[p] = "user"
    /\ chardev' = [chardev EXCEPT !.pc[p] = "closed"]
    /\ UNCHANGED <<kvars, uvars, pvars, fvars, ioctl>>

\* read(fd, buf, count), device_read up to the copy: return 0 if
\* *offset >= buffer_len, else bytes_to_read = min(buffer_len - *offset,
\* count).  The test and the subtraction are straight-line code and use one
\* load of buffer_len.
device_read_check(p) ==
    /\ chardev.pc[p] = "user"
    /\ \E cnt \in 0..BUF_SIZE :
         IF chardev.offset[p] >= chardev.buffer_len
         THEN chardev' = [chardev EXCEPT !.user_buf[p] = <<>>, !.ret[p] = 0]
         ELSE chardev' = [chardev EXCEPT
                            !.user_buf[p] = <<>>,
                            !.nbytes[p] = Min(chardev.buffer_len - chardev.offset[p], cnt),
                            !.pc[p] = "read_copy"]
    /\ UNCHANGED <<kvars, uvars, pvars, fvars, ioctl>>

\* device_read: copy_to_user(user_buf, device_buffer + *offset, bytes_to_read),
\* which may fault (-EFAULT); then *offset += bytes_to_read and return
\* bytes_to_read
device_read_copy(p) ==
    /\ chardev.pc[p] = "read_copy"
    /\ \E fault \in BOOLEAN :
         IF fault
         THEN chardev' = [chardev EXCEPT !.ret[p] = -EFAULT, !.nbytes[p] = 0,
                                         !.pc[p] = "user"]
         ELSE chardev' = [chardev EXCEPT
                            !.user_buf[p] = [i \in 1..chardev.nbytes[p] |->
                                  chardev.device_buffer[chardev.offset[p] + i]],
                            !.offset[p] = chardev.offset[p] + chardev.nbytes[p],
                            !.ret[p] = chardev.nbytes[p],
                            !.nbytes[p] = 0,
                            !.pc[p] = "user"]
    /\ UNCHANGED <<kvars, uvars, pvars, fvars, ioctl>>

\* write(fd, buf, count), device_write up to the copy: bytes_to_write =
\* min(count, BUF_SIZE); memset(device_buffer, 0, BUF_SIZE)
device_write_memset(p) ==
    /\ chardev.pc[p] = "user"
    /\ \E cnt \in 0..(BUF_SIZE + 1) : \E b \in Bytes :
         chardev' = [chardev EXCEPT
                       !.user_buf[p] = Msg(b, cnt),
                       !.nbytes[p] = IF cnt < BUF_SIZE THEN cnt ELSE BUF_SIZE,
                       !.device_buffer = [i \in 1..BUF_SIZE |-> 0],
                       !.pc[p] = "write_copy"]
    /\ UNCHANGED <<kvars, uvars, pvars, fvars, ioctl>>

\* device_write: copy_from_user(device_buffer, user_buf, bytes_to_write).  It
\* may fault after any number k of bytes; it then zero-fills the rest of the
\* destination and device_write returns -EFAULT without touching buffer_len.
device_write_copy(p) ==
    /\ chardev.pc[p] = "write_copy"
    /\ \E k \in 0..chardev.nbytes[p] :
         LET copied == [i \in 1..BUF_SIZE |->
                          IF i <= k THEN chardev.user_buf[p][i]
                          ELSE IF i <= chardev.nbytes[p] THEN 0
                          ELSE chardev.device_buffer[i]]
         IN  IF k = chardev.nbytes[p]
             THEN chardev' = [chardev EXCEPT !.device_buffer = copied,
                                             !.pc[p] = "write_len"]
             ELSE chardev' = [chardev EXCEPT !.device_buffer = copied,
                                             !.ret[p] = -EFAULT,
                                             !.nbytes[p] = 0,
                                             !.user_buf[p] = <<>>,
                                             !.pc[p] = "user"]
    /\ UNCHANGED <<kvars, uvars, pvars, fvars, ioctl>>

\* device_write: buffer_len = bytes_to_write; return bytes_to_write.  The
\* file position is not used and not advanced.
device_write_len(p) ==
    /\ chardev.pc[p] = "write_len"
    /\ chardev' = [chardev EXCEPT
                     !.buffer_len = chardev.nbytes[p],
                     !.ret[p] = chardev.nbytes[p],
                     !.last_write = SubSeq(chardev.user_buf[p], 1, chardev.nbytes[p]),
                     !.nbytes[p] = 0,
                     !.user_buf[p] = <<>>,
                     !.pc[p] = "user"]
    /\ UNCHANGED <<kvars, uvars, pvars, fvars, ioctl>>

\* the module is loaded and /dev/hello exists; no process has it open
InitCharDev ==
    /\ chardev = CharDevLoaded
    /\ ioctl = "off"
    /\ CameraUnloaded
    /\ PollDriverUnloaded
    /\ StreamerOff

NextCharDev ==
    \E p \in Openers :
        \/ device_open(p)
        \/ device_release(p)
        \/ device_read_check(p)
        \/ device_read_copy(p)
        \/ device_write_memset(p)
        \/ device_write_copy(p)
        \/ device_write_len(p)

SpecCharDev == InitCharDev /\ [][NextCharDev]_vars

\* C26: within one open of /dev/hello every read at a position below
\* buffer_len returns the bytes of the buffered message (the bytes the last
\* successful write stored) that follow the position, in order, and advances
\* the position by the number of bytes returned, never beyond buffer_len;
\* every read at a position that has reached buffer_len returns 0 and leaves
\* the position alone, so a loop that reads until it gets 0 ends.
ReadUntilEOF ==
    [][\A p \in Openers :
         /\ device_read_check(p) =>
               IF chardev.offset[p] >= chardev.buffer_len
               THEN /\ chardev'.ret[p] = 0 /\ chardev'.pc[p] = "user"
                    /\ chardev'.offset[p] = chardev.offset[p]
               ELSE chardev'.pc[p] = "read_copy"
         /\ device_read_copy(p) =>
               \/ /\ chardev'.ret[p] = -EFAULT
                  /\ chardev'.offset[p] = chardev.offset[p]
               \/ /\ chardev'.ret[p] >= 0
                  /\ chardev'.offset[p] = chardev.offset[p] + chardev'.ret[p]
                  /\ chardev'.offset[p] <= chardev.buffer_len
                  /\ chardev'.offset[p] <= Len(chardev.last_write)
                  /\ chardev'.user_buf[p] =
                        SubSeq(chardev.last_write, chardev.offset[p] + 1,
                               chardev'.offset[p])]_vars

\* C27: whenever no write is in progress the device holds exactly the bytes
\* of the last write that succeeded: buffer_len is min(n, BUF_SIZE) for its
\* n bytes and the first buffer_len bytes of the buffer are its first
\* min(n, BUF_SIZE) bytes, so that a fresh open reads back these and no byte
\* of an earlier write.
WriteReplacesMessage ==
    (\A p \in Openers : chardev.pc[p] \notin {"write_copy", "write_len"}) =>
        /\ chardev.buffer_len = Len(chardev.last_write)
        /\ SubSeq(chardev.device_buffer, 1, chardev.buffer_len) = chardev.last_write

(* -------------------------- periodic producer -------------------------- *)

\* C28: while the module is loaded and its exit function has not been called,
\* the timer is armed exactly when no timer_callback runs, so the schedule
\* does not stop by itself and one callback runs at a time.  frame_count
\* changes only when the armed timer fires, and then by exactly one, so it
\* counts the firings; the callback that has fired sets data_ready, then
\* wakes every process on the wait queue, then arms the timer again and
\* returns.
PeriodicProducer ==
    /\ [](mstate = "live" => (timer_pending <=> tpc = "idle"))
    /\ [][/\ (frame_count' # frame_count \/ (tpc = "idle" /\ tpc' # "idle")) =>
               /\ timer_pending /\ ~timer_pending'
               /\ tpc = "idle" /\ tpc' = "gen"
               /\ frame_count' = frame_count + 1
          /\ (tpc = "set" /\ tpc' # "set") =>
               tpc' = "wake" /\ data_ready' /\ frame_count' = frame_count
          /\ (tpc = "wake" /\ tpc' # "wake") =>
               /\ tpc' = "rearm"
               /\ \A r \in my_wait_queue : triggered'[r]
               /\ data_ready' = data_ready
          /\ (tpc = "rearm" /\ tpc' # "rearm") =>
               tpc' = "idle" /\ timer_pending']_vars

\* C28 witness: the module is loaded, the timer has fired MaxFrames times and
\* the last callback has returned with the timer armed again
TimerRearmedAgain ==
    /\ mstate = "live"
    /\ frame_count = MaxFrames
    /\ tpc = "idle"
    /\ timer_pending
    /\ data_ready

(* --------------------- a failed copy does not consume ------------------ *)

\* C29: a my_read or poll_read whose copy to the caller's buffer fails returns
\* -EFAULT and leaves the ready flag, the slot and the stored length as they
\* were, in the failing step and until the call has returned, so the frame it
\* found is still there for a later read; poll_read has released dev->mutex
\* when it returns on that path.
FailedCopyKeepsFrame ==
    [][/\ \A r \in Readers :
            /\ (pc[r] = "read_copy" /\ pc'[r] # "read_copy" /\ pc'[r] # "read_clear") =>
                  /\ pc'[r] = "read_ret" /\ ret'[r] = -EFAULT
                  /\ data_ready' = data_ready
                  /\ frame_buffer' = frame_buffer
                  /\ frame_count' = frame_count
            /\ (pc[r] = "read_ret" /\ ret[r] = -EFAULT /\ pc'[r] # "read_ret") =>
                  /\ data_ready' = data_ready
                  /\ frame_buffer' = frame_buffer
       /\ \A u \in Users :
            /\ (upc[u] = "rd_check" /\ upc'[u] = "ret" /\ uret'[u] = -EFAULT) =>
                  /\ data_available /\ data_available'
                  /\ dev_buffer' = dev_buffer
                  /\ buffer_size' = buffer_size
                  /\ mutex' = 0
            /\ (upc[u] = "ret" /\ uret[u] = -EFAULT /\ upc'[u] # "ret") =>
                  /\ mutex' = mutex /\ mutex # u
                  /\ data_available' = data_available
                  /\ dev_buffer' = dev_buffer
                  /\ buffer_size' = buffer_size]_vars

\* C29 witness (camera): a my_read has failed with -EFAULT after it had
\* copied a part of the frame, and the frame is still ready
CameraCopyFailed ==
    \E r \in Readers :
        /\ pc[r] = "read_ret" /\ ret[r] = -EFAULT
        /\ ubuf[r][1] = frame_buffer[1]
        /\ data_ready
        /\ unclaimed

(* ---------------------- reads of any requested count ------------------- *)

\* a process that opens the camera and reads it without polling, with a
\* frame's size or with any other count
ReaderAnyCount(r) ==
    \/ my_open(r)
    \/ my_release(r)
    \/ my_read_check(r)
    \/ my_read_short(r)
    \/ my_read_copy(r)
    \/ my_read_clear(r)
    \/ read_return(r)

\* either driver is loaded and stays loaded; the camera's readers pass any
\* count to read(), the poll driver's users do so in every specification
NextAnyCount ==
    \/ Producer
    \/ interrupt_v2_init_kmalloc
    \/ interrupt_v2_init_timer
    \/ \E r \in Readers : ReaderAnyCount(r)
    \/ NextPoll

SpecAnyCount == InitDrivers /\ [][NextAnyCount]_vars

PollBufferInvariant ==
    (pd_loaded /\ mutex = 0) =>
        /\ data_available => buffer_size \in 1..BUFFER_SIZE
        /\ ~data_available => buffer_size = 0

(* ------------- two blocking reads and one write (poll driver) ---------- *)

\* the steps of poll_read for a reading thread
ReadCall(u) ==
    \/ poll_read_enter(u)
    \/ mutex_lock_interruptible(u)
    \/ poll_read_check(u)
    \/ poll_read_wait(u)

\* the steps of poll_write for the writing thread
WriteCall(u) ==
    \/ poll_write_enter(u)
    \/ mutex_lock_interruptible(u)
    \/ poll_write_copy(u)

\* three threads have opened /dev/poll_device without O_NONBLOCK on the
\* freshly loaded driver
InitBlockedReaders ==
    /\ pd_loaded = TRUE
    /\ written = FALSE
    /\ dev_buffer = ZeroBuf
    /\ buffer_size = 0
    /\ data_available = FALSE
    /\ mutex = 0
    /\ read_queue = {}
    /\ write_queue = {}
    /\ upc = [u \in 1..3 |-> "idle"]
    /\ nonblock = [u \in 1..3 |-> FALSE]
    /\ count = [u \in 1..3 |-> 0]
    /\ udata = [u \in 1..3 |-> <<>>]
    /\ uret = [u \in 1..3 |-> 0]
    /\ utrig = [u \in 1..3 |-> FALSE]
    /\ CameraUnloaded
    /\ StreamerOff
    /\ OthersUnloaded

\* Threads 1 and 2 each call read once, thread 3 calls write once, and each
\* stays in user space with the result of its call.  A thread that is
\* runnable inside a handler runs eventually; whether a signal is delivered
\* to a sleeping thread is left open.
SpecBlockedReaders ==
    /\ InitBlockedReaders
    /\ [][(\E u \in {1, 2} : ReadCall(u)) \/ WriteCall(3)]_vars
    /\ \A u \in {1, 2} : WF_vars(ReadCall(u) /\ uret'[u] # -ERESTARTSYS)
    /\ WF_vars(WriteCall(3) /\ uret'[3] # -ERESTARTSYS)

\* C32 -- Poll driver blocking read.  A thread that sleeps or has returned
\* does not hold the mutex, and the holder is inside a critical section it
\* can leave, so the writer always gets through its call.  A woken reader
\* goes back to the test of data_available under the mutex, and sleeps again
\* when the data is gone.  At most one of the two readers returns data, it is
\* the data of the write, and once the write has succeeded one of them does
\* return it unless both reads have failed.
BlockingRead ==
    /\ [](/\ \A u \in 1..3 : (mutex = u) <=> (upc[u] \in {"rd_check", "wr_copy"})
          /\ \A u \in {1, 2} :
               (upc[u] = "ret" /\ uret[u] >= 0) =>
                   /\ upc[3] = "ret" /\ uret[3] >= 0
                   /\ uret[u] = Min(count[u], uret[3])
                   /\ udata[u] = SubSeq(dev_buffer, 1, uret[u])
                   /\ \A v \in {1, 2} \ {u} : ~(upc[v] = "ret" /\ uret[v] >= 0))
    /\ [][\A u \in {1, 2} :
            /\ (upc[u] = "rd_wait" /\ upc'[u] # "rd_wait") =>
                   \/ data_available /\ upc'[u] \in {"rd_check", "rd_lock"}
                   \/ ~data_available /\ upc'[u] = "ret"
                        /\ uret'[u] = -ERESTARTSYS
            /\ (upc[u] = "rd_check" /\ ~data_available /\ upc'[u] # "rd_check") =>
                   upc'[u] = "rd_wait" /\ mutex' = 0 /\ uret'[u] = uret[u]
       ]_vars
    /\ <>(upc[3] = "ret")
    /\ (upc[3] = "ret" /\ uret[3] >= 0) ~>
           \/ \E u \in {1, 2} : upc[u] = "ret" /\ uret[u] >= 0
           \/ \A u \in {1, 2} : upc[u] = "ret" /\ uret[u] < 0

\* one reader has returned the data of the write in full; the other one is
\* asleep on the read queue after the data has gone
OneReaderGotTheWrite ==
    \E u \in {1, 2} : \E v \in {1, 2} \ {u} :
        /\ upc[u] = "ret" /\ uret[u] = BUFFER_SIZE
        /\ upc[v] = "rd_wait"
        /\ upc[3] = "ret" /\ uret[3] = BUFFER_SIZE
        /\ ~data_available

(* --------------------- frame buffer lifetime (camera) ------------------ *)

\* C33 -- No use of the frame buffer after it is freed: in every interleaving
\* of module teardown with a timer callback that is pending or running,
\* every store of generate_test_pattern into frame_buffer and every copy of
\* my_read out of it is made while the buffer is allocated, never after
\* kfree.
NoUseAfterFree ==
    [][ /\ (tpc = "gen" /\ <<tpc, tidx>>' # <<tpc, tidx>>) => buf_state # "freed"
        /\ \A r \in Readers :
             (pc[r] = "read_copy" /\ ubuf'[r] # ubuf[r]) => buf_state # "freed"
      ]_vars

\* C34 (as stated) -- No read before the first publish: in every reachable
\* state of the camera driver, data_ready implies that frame_buffer is
\* allocated and frame_count >= 1.
ReadyImpliesAllocated ==
    data_ready => (buf_state = "alloc" /\ frame_count >= 1)

\* C34 (amended) -- Until teardown frees the buffer, data_ready implies that
\* frame_buffer is allocated and that one complete frame at least has been
\* generated; a read made before the first publish has completed, from the
\* creation of the device node on, returns -EAGAIN, and every pixel my_read
\* copies comes from the allocated buffer and has been written by
\* generate_test_pattern.
ReadyImpliesAllocatedUntilFreed ==
    /\ [](buf_state # "freed" =>
             (data_ready => /\ buf_state = "alloc"
                            /\ CompletedSeq >= 1
                            /\ \A p \in Pixels : frame_buffer[p] # Uninit))
    /\ [][\A r \in Readers :
            /\ (pc[r] = "idle" /\ pc'[r] \in {"read_ret", "read_copy", "read_clear"}
                  /\ CompletedSeq = 0) =>
                   (pc'[r] = "read_ret" /\ ret'[r] = -EAGAIN)
            /\ (pc[r] = "read_copy" /\ ubuf'[r] # ubuf[r]) =>
                   /\ buf_state = "alloc"
                   /\ frame_count >= 1
                   /\ ubuf'[r][uidx[r]] # Uninit
       ]_vars

\* a process has opened the device between device_create and kmalloc and its
\* read has returned -EAGAIN
ReadBeforeBufferExists ==
    \E r \in Readers :
        /\ pc[r] = "read_ret" /\ ret[r] = -EAGAIN
        /\ mstate = "init_alloc" /\ buf_state = "null"

(* ------------------------- forwarder: send loop ------------------------ *)

\* C35 -- Send loop progress: in the retry loop 0 <= total_sent <=
\* bytes_read; every iteration sends from offset total_sent and either ends
\* the loop through a failed send or moves total_sent strictly towards
\* bytes_read by the bytes it has put on the wire, whatever the send returns
\* (a negative value, 0 or a positive count), so that the loop terminates for
\* every frame.
SendLoopProgress ==
    /\ [](fpc = "send" => (0 <= total_sent /\ total_sent <= bytes_read))
    /\ [][(fpc = "send" /\ total_sent < bytes_read) =>
            \/ /\ fpc' = "cleanup"
               /\ total_sent' = total_sent
               /\ wire' = wire
            \/ /\ fpc' = "send"
               /\ total_sent' > total_sent
               /\ total_sent' <= bytes_read
               /\ wire' = wire \o SubSeq(buffer, total_sent + 1, total_sent')
       ]_vars

(* ----------------------- forwarder: resources -------------------------- *)

\* C36 -- Forwarder resource cleanup: on every path by which main returns
\* (a start-up failure, a poll or read failure or end of data, a send
\* failure, normal completion) every resource acquired so far has been
\* released exactly once and nothing that was not acquired has been
\* released; after the loop all four resources have been released.
ResourceCleanup ==
    /\ \A x \in Resources : res[x] # "bad"
    /\ fpc = "exit" =>
         /\ \A x \in Resources : res[x] \in {"none", "released"}
         /\ exit_status = 0 => \A x \in Resources : res[x] = "released"
    /\ fpc \in {"loop", "read", "send", "sent", "done", "cleanup"} =>
         \A x \in Resources : res[x] = "held"

\* main has returned 1 after a failure of bind, listen or accept: the listening
\* socket, the device and the buffer have been released, no client socket
\* was ever held
FailedAfterSocket ==
    /\ fpc = "exit"
    /\ exit_status = 1
    /\ res["server_fd"] = "released"
    /\ res["device_fd"] = "released"
    /\ res["buffer"] = "released"
    /\ res["client_fd"] = "none"

(* ----------------------- ioctl driver: parameters ---------------------- *)

\* C37 -- ioctl parameter invariant: in every state reachable from module init
\* by any sequence of ioctl calls of the processes (valid, invalid, unknown),
\* the stored parameters satisfy gain <= 100, 1 <= exposure <= 1000 and
\* 2000 <= wb_temp <= 10000.
StoredParamsInRange ==
    /\ ioctl.params.gain \in 0..100
    /\ ioctl.params.exposure \in 1..1000
    /\ ioctl.params.wb_temp \in 2000..10000

\* the device holds the largest parameters it accepts while a SET_PARAMS
\* with a white balance just above the limit is being refused
LimitsStoredAndExceeded ==
    /\ ioctl.params = [gain |-> 100, exposure |-> 1000, wb_temp |-> 10000]
    /\ \E c \in Callers :
           /\ ioctl.cmd[c] = "SET_PARAMS" /\ ioctl.pc[c] = "unlock"
           /\ ioctl.ret[c] = -EINVAL
           /\ ioctl.arg[c].wb_temp = 10001

(* --------------------- forwarder: frame accounting --------------------- *)

\* C38 -- Forwarder frame accounting: frame_count never exceeds MAX_FRAMES;
\* it changes only at a device read that returns more than 0 bytes, by one,
\* and at every such read; "Transmitted n frames" is printed only when every
\* byte of the n frames counted is on the wire, and never after a failed
\* send.
FrameAccounting ==
    /\ [](/\ fs_frame_count \in 0..MAX_FRAMES
          /\ fpc = "done" => (wire = claimed /\ (fs_frame_count > 0 <=> wire # <<>>)))
    /\ [][/\ (fpc = "read" /\ fpc' # "read") =>
                fs_frame_count' = fs_frame_count + (IF bytes_read' > 0 THEN 1 ELSE 0)
          /\ fpc # "read" => fs_frame_count' = fs_frame_count
          /\ (fpc = "send" /\ fpc' \notin {"send", "sent"}) => fpc' = "cleanup"
          /\ fpc \in {"cleanup", "exit"} => fpc' \in {"cleanup", "exit"}
       ]_vars

\* the device has ended after one frame: the message is about to be printed
\* for n = 1 with that frame on the wire in full
TransmittedOneFrame ==
    /\ fpc = "done"
    /\ fs_frame_count = 1
    /\ bytes_read = 0
    /\ wire = claimed
    /\ Len(wire) = MaxReadLen
    /\ short_write

====
